---- MODULE Spec2Model ----
(***************************************************************************)
(* A model of the GeoSolver response pipeline (analyzeGeometryProblem and  *)
(* its sanitizer), of the App component that drives it, and of what shows *)
(* a response: the diagram compiler, ResultDisplay with its interactive    *)
(* map, and the text functions of MathDisplay.                             *)
(*                                                                         *)
(* JavaScript values are tagged records.  Strings are sequences of         *)
(* one-character strings, so that String(), toUpperCase(), join() and      *)
(* JSON.stringify() are computed, not assumed.  An object is the ordered   *)
(* list of its own properties, as JSON.parse builds it.                    *)
(***************************************************************************)
EXTENDS Integers, Sequences, FiniteSets, TLC

\* ------------------------------------------------------------------ bounds

\* Math.random() draws available to one pass of the response pipeline.
MaxDraws == 3
\* analyzeGeometryProblem calls started in one behaviour.
MaxCalls == 3
\* The renders MermaidDiagram may have pending when its props change.
MaxPending == 2

\* ------------------------------------------------------- JavaScript values

Undefined == [t |-> "undefined"]
Null == [t |-> "null"]
Bool(b) == [t |-> "boolean", b |-> b]
Num(n) == [t |-> "number", n |-> n]
Str(s) == [t |-> "string", s |-> s]
Arr(a) == [t |-> "array", a |-> a]
Obj(p) == [t |-> "object", p |-> p]
\* One own property of an object.
P(k, v) == [k |-> k, v |-> v]
\* The completion of an expression that threw (a TypeError).
Throw == [t |-> "throw"]

\* The property names the pipeline reads and writes.
Key ==
    [id |-> <<"i", "d">>,
     statement |-> <<"s", "t", "a", "t", "e", "m", "e", "n", "t">>,
     method |-> <<"m", "e", "t", "h", "o", "d">>,
     reason |-> <<"r", "e", "a", "s", "o", "n">>,
     type |-> <<"t", "y", "p", "e">>,
     children |-> <<"c", "h", "i", "l", "d", "r", "e", "n">>,
     nodes |-> <<"n", "o", "d", "e", "s">>,
     isProven |-> <<"i", "s", "P", "r", "o", "v", "e", "n">>,
     text |-> <<"t", "e", "x", "t">>,
     toString |-> <<"t", "o", "S", "t", "r", "i", "n", "g">>,
     branches |-> <<"b", "r", "a", "n", "c", "h", "e", "s">>,
     root |-> <<"r", "o", "o", "t">>,
     tree |-> <<"t", "r", "e", "e">>,
     reverse_analysis_tree |-> <<"r", "e", "v", "e", "r", "s", "e", "_", "a", "n", "a", "l", "y", "s", "i", "s", "_", "t", "r", "e", "e">>,
     name |-> <<"n", "a", "m", "e">>,
     status |-> <<"s", "t", "a", "t", "u", "s">>,
     explanation |-> <<"e", "x", "p", "l", "a", "n", "a", "t", "i", "o", "n">>,
     forward_proof |-> <<"f", "o", "r", "w", "a", "r", "d", "_", "p", "r", "o", "o", "f">>,
     proof |-> <<"p", "r", "o", "o", "f">>,
     conclusion |-> <<"c", "o", "n", "c", "l", "u", "s", "i", "o", "n">>,
     hypothesis |-> <<"h", "y", "p", "o", "t", "h", "e", "s", "i", "s">>,
     knowledge_used |-> <<"k", "n", "o", "w", "l", "e", "d", "g", "e", "_", "u", "s", "e", "d">>]

ROOT == <<"R", "O", "O", "T">>
NODE == <<"N", "O", "D", "E">>
LEAF == <<"L", "E", "A", "F">>
AnalysisType == {ROOT, NODE, LEAF}

\* node.key: the own property, undefined when absent; a property read of
\* null or undefined throws.  Arrays and primitives own none of the names
\* the pipeline reads.
Get(val, key) ==
    IF val.t \in {"null", "undefined", "throw"} THEN Throw
    ELSE IF val.t = "object" /\ \E i \in 1..Len(val.p) : val.p[i].k = key
         THEN val.p[CHOOSE i \in 1..Len(val.p) :
                        /\ val.p[i].k = key
                        /\ \A j \in (i + 1)..Len(val.p) : val.p[j].k # key].v
         ELSE Undefined

\* ToBoolean.
Truthy(val) ==
    CASE val.t = "boolean" -> val.b
      [] val.t = "number" -> val.n # 0
      [] val.t = "string" -> val.s # <<>>
      [] val.t \in {"array", "object"} -> TRUE
      [] OTHER -> FALSE

\* a || b (a thrown operand propagates).
Or(a, b) == IF a = Throw THEN Throw ELSE IF Truthy(a) THEN a ELSE b

IsArray(val) == val.t = "array"
\* typeof val === 'object'
TypeofObject(val) == val.t \in {"object", "array", "null"}

Digits == <<"0", "1", "2", "3", "4", "5", "6", "7", "8", "9">>

RECURSIVE NumToString(_)
\* String(n) of a natural number.
NumToString(n) ==
    IF n < 10 THEN <<Digits[n + 1]>>
    ELSE NumToString(n \div 10) \o <<Digits[(n % 10) + 1]>>

Lower == <<"a", "b", "c", "d", "e", "f", "g", "h", "i", "j", "k", "l", "m",
           "n", "o", "p", "q", "r", "s", "t", "u", "v", "w", "x", "y", "z">>
Upper == <<"A", "B", "C", "D", "E", "F", "G", "H", "I", "J", "K", "L", "M",
           "N", "O", "P", "Q", "R", "S", "T", "U", "V", "W", "X", "Y", "Z">>

\* String.prototype.toUpperCase on the model's alphabet.
ToUpperCase(s) ==
    [i \in 1..Len(s) |->
        IF \E j \in 1..Len(Lower) : Lower[j] = s[i]
        THEN Upper[CHOOSE j \in 1..Len(Lower) : Lower[j] = s[i]]
        ELSE s[i]]

RECURSIVE JsToString(_)
RECURSIVE Join(_, _)

\* String(val): a Str, or Throw.  A parsed object with an own "toString"
\* property hides Object.prototype.toString behind a value that is not
\* callable, and OrdinaryToPrimitive then throws a TypeError.
JsToString(val) ==
    CASE val.t = "undefined" -> Str(<<"u", "n", "d", "e", "f", "i", "n", "e", "d">>)
      [] val.t = "null" -> Str(<<"n", "u", "l", "l">>)
      [] val.t = "boolean" -> IF val.b THEN Str(<<"t", "r", "u", "e">>)
                              ELSE Str(<<"f", "a", "l", "s", "e">>)
      [] val.t = "number" -> Str(NumToString(val.n))
      [] val.t = "string" -> val
      [] val.t = "array" -> Join(val.a, <<",">>)
      [] val.t = "object" ->
            IF Get(val, Key.toString) # Undefined THEN Throw
            ELSE Str(<<"[", "o", "b", "j", "e", "c", "t", " ", "O", "b", "j", "e", "c", "t", "]">>)
      [] OTHER -> Throw

\* Array.prototype.join: null and undefined elements give the empty string.
Join(a, sep) ==
    IF a = <<>> THEN Str(<<>>)
    ELSE LET Glue(head, rest) ==
                 IF head = Throw \/ rest = Throw THEN Throw
                 ELSE IF Len(a) = 1 THEN head
                 ELSE Str(head.s \o sep \o rest.s)
         IN Glue(IF a[1].t \in {"null", "undefined"} THEN Str(<<>>) ELSE JsToString(a[1]),
                 Join(Tail(a), sep))

RECURSIVE Stringify(_)
RECURSIVE StringifyItems(_)
RECURSIVE StringifyProps(_)

\* JSON.stringify of a parsed value (the model's strings need no escapes).
Stringify(val) ==
    CASE val.t = "null" -> <<"n", "u", "l", "l">>
      [] val.t = "boolean" -> IF val.b THEN <<"t", "r", "u", "e">>
                              ELSE <<"f", "a", "l", "s", "e">>
      [] val.t = "number" -> NumToString(val.n)
      [] val.t = "string" -> <<"\"">> \o val.s \o <<"\"">>
      [] val.t = "array" -> <<"[">> \o StringifyItems(val.a) \o <<"]">>
      [] val.t = "object" -> <<"{">> \o StringifyProps(val.p) \o <<"}">>
      [] OTHER -> <<>>

StringifyItems(a) ==
    IF a = <<>> THEN <<>>
    ELSE Stringify(a[1]) \o (IF Len(a) = 1 THEN <<>> ELSE <<",">> \o StringifyItems(Tail(a)))

StringifyProps(p) ==
    IF p = <<>> THEN <<>>
    ELSE <<"\"">> \o p[1].k \o <<"\"", ":">> \o Stringify(p[1].v)
         \o (IF Len(p) = 1 THEN <<>> ELSE <<",">> \o StringifyProps(Tail(p)))

\* ----------------------------------------------------------- the sanitizer

RECURSIVE ensureString(_)
RECURSIVE ensureStringAll(_)

\* ensureString: declared to return a string; for an object it returns
\* val.text itself whenever that is truthy, whatever its type.
ensureString(val) ==
    CASE val.t \in {"null", "undefined"} -> Str(<<>>)
      [] val.t = "string" -> val
      [] val.t = "number" -> Str(NumToString(val.n))
      [] val.t = "array" -> Join(ensureStringAll(val.a), <<"\n">>)
      [] val.t = "object" -> Or(Get(val, Key.text), Str(Stringify(val)))
      [] OTHER -> Str(<<>>)

\* val.map(v => ensureString(v))
ensureStringAll(a) ==
    IF a = <<>> THEN <<>> ELSE <<ensureString(a[1])>> \o ensureStringAll(Tail(a))

\* The tokens Math.random().toString(36).substr(2, n) can give.
RandomTokens == {<<"k", "7">>, <<"q", "2">>}
\* The successive draws of one pass.
RandomStreams == [1..MaxDraws -> RandomTokens]
Draw(rand, k) == rand[((k - 1) % MaxDraws) + 1]

errPrefix == <<"e", "r", "r", "_">>
errStatement == <<"L", "o", "i", " ", "d", "u", " ", "l", "i", "e", "u">>
ellipsis == <<".", ".", ".">>

RECURSIVE sanitizeLogicNode(_, _, _)
RECURSIVE sanitizeChildren(_, _, _)

\* sanitizeLogicNode(node), with rand the stream of random tokens and k the
\* index of the next draw.  Gives [v |-> the node or Throw, k |-> next draw].
sanitizeLogicNode(node, rand, k) ==
    IF ~Truthy(node) \/ ~TypeofObject(node)
    THEN [v |-> Obj(<<P(Key.id, Str(errPrefix \o Draw(rand, k))),
                      P(Key.statement, Str(errStatement)),
                      P(Key.method, Str(<<>>)),
                      P(Key.reason, Str(<<>>)),
                      P(Key.type, Str(NODE)),
                      P(Key.children, Arr(<<>>))>>),
          k |-> k + 1]
    ELSE LET Build(idRaw, statement, method, reason, typeStr, rawChildren) ==
                 LET drawn == idRaw # Throw /\ ~Truthy(idRaw)
                     id == IF drawn THEN Str(<<"n">> \o Draw(rand, k)) ELSE idRaw
                     k1 == IF drawn THEN k + 1 ELSE k
                     type == IF typeStr = Throw THEN Throw
                             ELSE IF ToUpperCase(typeStr.s) = LEAF THEN Str(LEAF)
                             ELSE IF ToUpperCase(typeStr.s) = ROOT THEN Str(ROOT)
                             ELSE Str(NODE)
                     Return(kids) ==
                         IF Throw \in {id, statement, method, reason, type} \/ kids.thrown
                         THEN [v |-> Throw, k |-> kids.k]
                         ELSE [v |-> Obj(<<P(Key.id, id),
                                           P(Key.statement, statement),
                                           P(Key.method, method),
                                           P(Key.reason, reason),
                                           P(Key.type, type),
                                           P(Key.isProven, Bool(Truthy(Get(node, Key.isProven)))),
                                           P(Key.children, Arr(kids.v))>>),
                               k |-> kids.k]
                 IN Return(IF IsArray(rawChildren)
                           THEN sanitizeChildren(rawChildren.a, rand, k1)
                           ELSE [thrown |-> FALSE, v |-> <<>>, k |-> k1])
         IN Build(ensureString(Get(node, Key.id)),
                  Or(ensureString(Get(node, Key.statement)), Str(ellipsis)),
                  ensureString(Get(node, Key.method)),
                  ensureString(Get(node, Key.reason)),
                  JsToString(Get(node, Key.type)),
                  Or(Get(node, Key.children), Get(node, Key.nodes)))

\* What a map over a list gives when the element first is followed by the
\* elements of rest: thrown when one of the calls threw.
Mapped(first, rest) ==
    IF first.v = Throw \/ rest.thrown
    THEN [thrown |-> TRUE, v |-> <<>>, k |-> rest.k]
    ELSE [thrown |-> FALSE, v |-> <<first.v>> \o rest.v, k |-> rest.k]

\* rawChildren.map(c => sanitizeLogicNode(c)), left to right.
sanitizeChildren(a, rand, k) ==
    IF a = <<>> THEN [thrown |-> FALSE, v |-> <<>>, k |-> k]
    ELSE LET Then(first) == Mapped(first, sanitizeChildren(Tail(a), rand, first.k))
         IN Then(sanitizeLogicNode(a[1], rand, k))

\* ------------------------------------------- post-parse normalization

\* The string literals of the post-parse normalization.
Lit ==
    [success |-> <<"s", "u", "c", "c", "e", "s", "s">>,
     failure |-> <<"f", "a", "i", "l", "u", "r", "e">>,
     partial |-> <<"p", "a", "r", "t", "i", "a", "l">>,
     default |-> <<"d", "e", "f", "a", "u", "l", "t">>,
     defaultName |-> <<"P", "h", "u", "o", "n", "g", " ", "p", "h", "a", "p", " ", "t", "o", "i", " ", "u", "u">>,
     defaultExplanation |-> <<"D", "a", "y", " ", "l", "a", " ", "h", "u", "o", "n", "g", " ", "g", "i", "a", "i", " ", "d", "e", " ", "x", "u", "a", "t", ".">>,
     proofPlaceholder |-> <<"D", "a", "n", "g", " ", "c", "a", "p", " ", "n", "h", "a", "t", " ", "l", "o", "i", " ", "g", "i", "a", "i", ".", ".", ".">>,
     noConclusion |-> <<"K", "h", "o", "n", "g", " ", "x", "a", "c", " ", "d", "i", "n", "h">>,
     branchName |-> <<"C", "a", "c", "h", " ">>]

\* obj.key = val on an object that is not shared: the property keeps its
\* place, or is appended when the object had none of that name.
SetProp(obj, key, val) ==
    IF \E i \in 1..Len(obj.p) : obj.p[i].k = key
    THEN Obj([i \in 1..Len(obj.p) |->
                 IF obj.p[i].k = key THEN P(key, val) ELSE obj.p[i]])
    ELSE Obj(obj.p \o <<P(key, val)>>)

\* The element parsed.branches.map builds for b at position index (from 0).
makeBranch(b, index, globalProof, rand, k) ==
    LET Build(id, name, rawStatus, explanation, rawRoot, rawProof) ==
            LET status == IF rawStatus \in {Str(Lit.success), Str(Lit.failure), Str(Lit.partial)}
                          THEN rawStatus ELSE Str(Lit.success)
                proof == IF rawProof = Throw THEN Throw
                         ELSE Or(Or(ensureString(rawProof), globalProof), Str(Lit.proofPlaceholder))
                Return(root) ==
                    IF Throw \in {Get(b, Key.id), id, name, explanation, root.v, proof}
                    THEN [v |-> Throw, k |-> root.k]
                    ELSE [v |-> Obj(<<P(Key.id, id),
                                      P(Key.name, name),
                                      P(Key.status, status),
                                      P(Key.explanation, explanation),
                                      P(Key.root, root.v),
                                      P(Key.forward_proof, proof)>>),
                          k |-> root.k]
            IN Return(IF rawRoot = Throw THEN [v |-> Throw, k |-> k]
                      ELSE sanitizeLogicNode(rawRoot, rand, k))
    IN Build(Or(ensureString(Get(b, Key.id)), Str(<<"b">> \o NumToString(index))),
             Or(ensureString(Get(b, Key.name)), Str(Lit.branchName \o NumToString(index + 1))),
             Get(b, Key.status),
             ensureString(Get(b, Key.explanation)),
             Or(Get(b, Key.root), Get(b, Key.tree)),
             Or(Get(b, Key.forward_proof), Get(b, Key.proof)))

RECURSIVE mapBranches(_, _, _, _, _)
\* parsed.branches.map(...), left to right from position index.
mapBranches(a, index, globalProof, rand, k) ==
    IF a = <<>> THEN [thrown |-> FALSE, v |-> <<>>, k |-> k]
    ELSE LET Then(first) ==
                 Mapped(first, mapBranches(Tail(a), index + 1, globalProof, rand, first.k))
         IN Then(makeBranch(a[1], index, globalProof, rand, k))

\* The branch built around the tree of a response in the legacy shape.
legacyBranch(root, globalProof) ==
    IF root.v = Throw THEN [thrown |-> TRUE, v |-> <<>>, k |-> root.k]
    ELSE [thrown |-> FALSE,
          v |-> <<Obj(<<P(Key.id, Str(Lit.default)),
                        P(Key.name, Str(Lit.defaultName)),
                        P(Key.status, Str(Lit.success)),
                        P(Key.explanation, Str(Lit.defaultExplanation)),
                        P(Key.root, root.v),
                        P(Key.forward_proof, Or(globalProof, Str(Lit.proofPlaceholder)))>>)>>,
          k |-> root.k]

\* The branches built from the parsed response, before the root coercion.
buildBranches(parsed, globalProof, rand) ==
    LET Build(rawBranches, legacy) ==
            IF IsArray(rawBranches)
            THEN mapBranches(rawBranches.a, 0, globalProof, rand, 1)
            ELSE IF Truthy(legacy)
            THEN legacyBranch(sanitizeLogicNode(legacy, rand, 1), globalProof)
            ELSE [thrown |-> FALSE, v |-> <<>>, k |-> 1]
    IN Build(Get(parsed, Key.branches), Or(Get(parsed, Key.reverse_analysis_tree), Get(parsed, Key.root)))

\* A pipeline without the coercion pass: the roots keep what the sanitizer
\* gave them.
coerceRootsSkipped(branches) == branches

\* branches.forEach(b => { if (b.root) b.root.type = AnalysisType.ROOT; })
coerceRoots(branches) ==
    [i \in 1..Len(branches) |->
        IF Truthy(Get(branches[i], Key.root))
        THEN SetProp(branches[i], Key.root, SetProp(Get(branches[i], Key.root), Key.type, Str(ROOT)))
        ELSE branches[i]]

\* A pipeline without the emptiness check.
noBranchesAllowed(branches) == FALSE

\* if (branches.length === 0) throw ...
noBranches(branches) == Len(branches) = 0

\* The failures one candidate can end in.
errNetwork == "Failed to fetch"
errNoResponse == "No response from Gemini"
errJsonSyntax == "JSON Syntax Error"
errTypeError == "TypeError"
errNoDiagram == "Khong tim thay so do phan tich nao."

\* The end of the try block once the branches are built: the throw for an
\* empty list, else the GeometryResponse returned.
finish(branches, hypothesis, safeConclusion, rawKnow) ==
    IF noBranches(branches) THEN [ok |-> FALSE, msg |-> errNoDiagram]
    ELSE IF safeConclusion = Throw \/ \E i \in 1..Len(hypothesis.a) : hypothesis.a[i] = Throw
    THEN [ok |-> FALSE, msg |-> errTypeError]
    ELSE [ok |-> TRUE,
          data |-> Obj(<<P(Key.hypothesis, hypothesis),
                         P(Key.conclusion, safeConclusion),
                         P(Key.knowledge_used, IF IsArray(rawKnow) THEN rawKnow ELSE Arr(<<>>)),
                         P(Key.branches, Arr(branches))>>)]

\* Everything after the parse, for one candidate's parsed value: either
\* the GeometryResponse returned or the message of the error thrown.
processParsed(parsed, rand) ==
    LET WithProof(globalProof) ==
            LET WithBranches(built) ==
                    IF built.thrown THEN [ok |-> FALSE, msg |-> errTypeError]
                    ELSE LET WithHypothesis(rawHyp) ==
                                 finish(coerceRoots(built.v),
                                        IF IsArray(rawHyp) THEN Arr(ensureStringAll(rawHyp.a))
                                        ELSE Arr(<<>>),
                                        Or(ensureString(Get(parsed, Key.conclusion)), Str(Lit.noConclusion)),
                                        Get(parsed, Key.knowledge_used))
                         IN WithHypothesis(Get(parsed, Key.hypothesis))
            IN WithBranches(IF globalProof = Throw THEN [thrown |-> TRUE, v |-> <<>>, k |-> 1]
                            ELSE buildBranches(parsed, globalProof, rand))
        Coerced(rawGlobal) == IF rawGlobal = Throw THEN Throw ELSE ensureString(rawGlobal)
    IN WithProof(Coerced(Or(Get(parsed, Key.forward_proof), Get(parsed, Key.proof))))

\* ------------------------------------------------- the backend's answers

\* The strings of the sample documents.
Sample ==
    [a |-> <<"a">>,
     r1 |-> <<"r", "1">>,
     n1 |-> <<"n", "1">>,
     n2 |-> <<"n", "2">>,
     n3 |-> <<"n", "3">>,
     q1 |-> <<"q", "1">>,
     stmt |-> <<"A", "B", "=", "A", "C">>,
     leaf |-> <<"l", "e", "a", "f">>,
     root |-> <<"r", "o", "o", "t">>]

\* The sample of the prompt: a well-formed two-level tree in one branch.
DocWellFormed ==
    Obj(<<P(Key.hypothesis, Arr(<<Str(Sample.stmt)>>)),
          P(Key.conclusion, Str(Sample.stmt)),
          P(Key.branches, Arr(<<
              Obj(<<P(Key.id, Str(Sample.q1)),
                    P(Key.status, Str(Lit.partial)),
                    P(Key.root, Obj(<<P(Key.id, Str(Sample.r1)),
                                   P(Key.type, Str(ROOT)),
                                   P(Key.statement, Str(Sample.stmt)),
                                   P(Key.children, Arr(<<
                                       Obj(<<P(Key.id, Str(Sample.n1)), P(Key.type, Str(LEAF)),
                                             P(Key.statement, Str(Sample.stmt)), P(Key.isProven, Bool(TRUE))>>),
                                       Obj(<<P(Key.id, Str(Sample.n2)), P(Key.type, Str(NODE)),
                                             P(Key.statement, Str(Sample.stmt)),
                                             P(Key.children, Arr(<<
                                                 Obj(<<P(Key.id, Str(Sample.n3)), P(Key.type, Str(LEAF)),
                                                       P(Key.statement, Str(Sample.stmt))>>)>>))>>)>>))>>))>>)>>))>>)

\* Valid JSON with an empty list of branches.
DocEmptyBranches == Obj(<<P(Key.branches, Arr(<<>>))>>)

\* Valid JSON that is no object at all.
DocNull == Null
DocNumber == Num(5)

\* The legacy shape: one tree at the top, ids left out, the children under
\* the alias "nodes".
DocLegacy ==
    Obj(<<P(Key.root, Obj(<<P(Key.statement, Str(Sample.stmt)),
                         P(Key.type, Str(Sample.leaf)),
                         P(Key.nodes, Arr(<<Obj(<<P(Key.statement, Str(Sample.stmt))>>)>>))>>))>>)

\* A root whose id is an object with a numeric text, over a null child.
DocMalformedTree ==
    Obj(<<P(Key.branches, Arr(<<
              Obj(<<P(Key.tree, Obj(<<P(Key.id, Obj(<<P(Key.text, Num(5))>>)),
                                   P(Key.children, Arr(<<Null>>))>>))>>)>>))>>)

\* A tree that repeats an id and declares a child to be a root.
DocRootChild ==
    Obj(<<P(Key.branches, Arr(<<
              Obj(<<P(Key.root, Obj(<<P(Key.id, Str(Sample.a)),
                                   P(Key.type, Str(LEAF)),
                                   P(Key.children, Arr(<<
                                       Obj(<<P(Key.id, Str(Sample.a)),
                                             P(Key.type, Str(Sample.root))>>)>>))>>))>>)>>))>>)

\* A node whose type is an object with an own "toString".
DocTypeObject ==
    Obj(<<P(Key.branches, Arr(<<
              Obj(<<P(Key.root, Obj(<<P(Key.id, Str(Sample.a)),
                                   P(Key.type, Obj(<<P(Key.toString, Num(1))>>))>>))>>)>>))>>)

\* Two branches, the first an empty object, the second with the id "b0"
\* and a tree of one node.
DocBareBranches ==
    Obj(<<P(Key.branches, Arr(<<Obj(<<>>),
                             Obj(<<P(Key.id, Str(<<"b", "0">>)),
                                   P(Key.root, Obj(<<P(Key.id, Str(Sample.a))>>))>>)>>))>>)

\* A list of branches holding null.
DocNullBranch == Obj(<<P(Key.branches, Arr(<<Null>>))>>)

Docs == <<DocWellFormed, DocEmptyBranches, DocNull, DocNumber, DocLegacy,
          DocMalformedTree, DocRootChild, DocTypeObject, DocBareBranches,
          DocNullBranch>>

\* What one generateContent call can come to: the promise rejects, the
\* response has no text, the text does not parse
\* even after the repair, or it parses to one of Docs.
Outcomes ==
    {[kind |-> "reject", msg |-> errNetwork, doc |-> 0]}
    \cup {[kind |-> "empty", msg |-> errNoResponse, doc |-> 0]}
    \cup {[kind |-> "unparsable", msg |-> errJsonSyntax, doc |-> 0]}
    \cup {[kind |-> "parsed", msg |-> "", doc |-> d] : d \in 1..Len(Docs)}

\* The body of the try block for one candidate's outcome.
attempt(o, rand) ==
    IF o.kind = "parsed" THEN processParsed(Docs[o.doc], rand)
    ELSE [ok |-> FALSE, msg |-> o.msg]

\* What the try block makes of outcome o under the random stream rand:
\* [ok, msg] for a failure, [ok, data, doc] for a return.
responseOf(o, rand) ==
    LET Tagged(res) == IF res.ok THEN [ok |-> TRUE, data |-> res.data, doc |-> o.doc]
                       ELSE [ok |-> FALSE, msg |-> res.msg]
    IN Tagged(attempt(o, rand))

\* Every response, over every outcome and every stream of random tokens.
Responses == {responseOf(o, rand) : o \in Outcomes, rand \in RandomStreams}

\* The responses the App is driven with: a rejected request, a response
\* without branches and two well-formed ones.  The handlers treat every
\* failure alike and every returned response alike.
AppResponses ==
    {responseOf(o, rand) :
        o \in {x \in Outcomes : \/ x.kind = "reject"
                                \/ /\ x.kind = "parsed"
                                   /\ Docs[x.doc] \in {DocWellFormed, DocEmptyBranches, DocRootChild}},
        rand \in RandomStreams}

\* ------------------------------------------------------ string helpers

\* String.prototype.startsWith.
StartsWith(s, pat) ==
    Len(pat) <= Len(s) /\ \A i \in 1..Len(pat) : s[i] = pat[i]

\* String.prototype.endsWith.
EndsWith(s, pat) ==
    Len(pat) <= Len(s) /\ \A i \in 1..Len(pat) : s[Len(s) - Len(pat) + i] = pat[i]

\* The characters \s matches, among those of the model's strings.
WhiteSpace == {" ", "\n", "\t"}

\* String.prototype.trim.
Trim(s) ==
    IF \A i \in 1..Len(s) : s[i] \in WhiteSpace THEN <<>>
    ELSE SubSeq(s,
                CHOOSE i \in 1..Len(s) :
                    s[i] \notin WhiteSpace /\ \A j \in 1..(i - 1) : s[j] \in WhiteSpace,
                CHOOSE i \in 1..Len(s) :
                    s[i] \notin WhiteSpace /\ \A j \in (i + 1)..Len(s) : s[j] \in WhiteSpace)

\* What [a-zA-Z0-9] matches.
IsAlnum(c) ==
    \/ \E i \in 1..Len(Lower) : c = Lower[i] \/ c = Upper[i]
    \/ \E i \in 1..Len(Digits) : c = Digits[i]

\* The first position from `from` on at which s holds character c, and 0
\* when it holds none.
FirstOf(s, c, from) ==
    IF \E j \in from..Len(s) : s[j] = c
    THEN CHOOSE j \in from..Len(s) : s[j] = c /\ \A l \in from..(j - 1) : s[l] # c
    ELSE 0

\* The match of one regular expression of a replace chain at the start
\* of s: the length matched (0 for no match) and the text that replaces
\* it.  A rule is [kind, pat, rep]:
\*   "lit"   /pat/                      replaced by rep
\*   "wrap"  /pat([^}]+)}/              replaced by rep$1  (pat ends in "{")
\*   "frac"  /pat([^}]+)}{([^}]+)}/     replaced by $1/$2
\*   "sub"   /_([a-zA-Z0-9])/           replaced by $1
\*   "br"    /<br\s*\/?>/i              replaced by rep
\*   "tag"   /<\/?[^>]+(>|$)/           replaced by rep
\* and, for the rules of normalizeLatex,
\*   "arg"   /pat\s*\{?([A-Za-z0-9]+)\}?/         replaced by rep$1}
\*   "argws" /pat\s*\{?\s*([A-Za-z0-9]+)\s*\}?/   replaced by rep$1}
\*   "deg"   /(\d+)\^o(?!\w)/                     replaced by $1rep
\* and, for repairJsonString,
\*   "bare"  /\\(?![\\"/bfnrtu])/                   replaced by rep
MatchAt(s, rule) ==
    LET n == Len(rule.pat)
        NoMatch == [len |-> 0, rep |-> <<>>]
        Wrapped(close) ==
            IF close > n + 1
            THEN [len |-> close, rep |-> rule.rep \o SubSeq(s, n + 1, close - 1)]
            ELSE NoMatch
        Fraction(mid) ==
            LET Second(close) ==
                    IF close > mid + 2
                    THEN [len |-> close,
                          rep |-> SubSeq(s, n + 1, mid - 1) \o <<"/">> \o SubSeq(s, mid + 2, close - 1)]
                    ELSE NoMatch
            IN IF mid > n + 1 /\ Len(s) > mid /\ s[mid + 1] = "{"
               THEN Second(FirstOf(s, "}", mid + 2))
               ELSE NoMatch
        Break(p) ==
            LET q == IF p <= Len(s) /\ s[p] = "/" THEN p + 1 ELSE p
            IN IF q <= Len(s) /\ s[q] = ">" THEN [len |-> q, rep |-> rule.rep] ELSE NoMatch
        Tag(close) ==
            [len |-> IF close = 0 THEN Len(s) ELSE close, rep |-> rule.rep]
        \* The first position from p on that holds no character of class.
        Past(p, class) ==
            CHOOSE q \in p..(Len(s) + 1) :
                /\ \A j \in p..(q - 1) : s[j] \in class
                /\ q <= Len(s) => s[q] \notin class
        Alnum == {s[j] : j \in {k \in 1..Len(s) : IsAlnum(s[k])}}
        Optional(p, c) == IF p <= Len(s) /\ s[p] = c THEN p + 1 ELSE p
        Argument(loose) ==
            LET Closed(from, to, end) ==
                    IF to > from
                    THEN [len |-> Optional(end, "}") - 1,
                          rep |-> rule.rep \o SubSeq(s, from, to - 1) \o <<"}">>]
                    ELSE NoMatch
                Captured(from, to) == Closed(from, to, IF loose THEN Past(to, WhiteSpace) ELSE to)
                Opened(p) == Captured(p, Past(p, Alnum))
                Braced(p) == Opened(IF loose THEN Past(p, WhiteSpace) ELSE p)
            IN Braced(Optional(Past(n + 1, WhiteSpace), "{"))
        Degrees(p) ==
            IF /\ p > 1
               /\ Len(s) > p
               /\ s[p] = "^"
               /\ s[p + 1] = "o"
               /\ Len(s) > p + 1 => ~(IsAlnum(s[p + 2]) \/ s[p + 2] = "_")
            THEN [len |-> p + 1, rep |-> SubSeq(s, 1, p - 1) \o rule.rep]
            ELSE NoMatch
    IN CASE rule.kind = "lit" ->
              IF StartsWith(s, rule.pat) THEN [len |-> n, rep |-> rule.rep] ELSE NoMatch
         [] rule.kind = "wrap" ->
              IF StartsWith(s, rule.pat) THEN Wrapped(FirstOf(s, "}", n + 1)) ELSE NoMatch
         [] rule.kind = "frac" ->
              IF StartsWith(s, rule.pat) THEN Fraction(FirstOf(s, "}", n + 1)) ELSE NoMatch
         [] rule.kind = "sub" ->
              IF Len(s) >= 2 /\ s[1] = "_" /\ IsAlnum(s[2])
              THEN [len |-> 2, rep |-> <<s[2]>>] ELSE NoMatch
         [] rule.kind = "br" ->
              IF Len(s) >= 3 /\ s[1] = "<" /\ s[2] \in {"b", "B"} /\ s[3] \in {"r", "R"}
              THEN Break(CHOOSE p \in 4..(Len(s) + 1) :
                             /\ \A j \in 4..(p - 1) : s[j] \in WhiteSpace
                             /\ p <= Len(s) => s[p] \notin WhiteSpace)
              ELSE NoMatch
         [] rule.kind = "tag" ->
              IF Len(s) >= 2 /\ s[1] = "<" /\ s[2] # ">" THEN Tag(FirstOf(s, ">", 2)) ELSE NoMatch
         [] rule.kind \in {"arg", "argws"} ->
              IF StartsWith(s, rule.pat) THEN Argument(rule.kind = "argws") ELSE NoMatch
         [] rule.kind = "bare" ->
              IF s[1] = "\\" /\ (Len(s) > 1 => s[2] \notin {"\\", "\"", "/", "b", "f", "n", "r", "t", "u"})
              THEN [len |-> 1, rep |-> rule.rep] ELSE NoMatch
         [] rule.kind = "deg" ->
              Degrees(Past(1, {Digits[j] : j \in 1..Len(Digits)}))

RECURSIVE Rewrite(_, _)
\* s.replace(rule, ...) with the g flag: the matches from left to right,
\* none overlapping another.
Rewrite(s, rule) ==
    LET Replace(i, m) ==
            SubSeq(s, 1, i - 1) \o m.rep \o Rewrite(SubSeq(s, i + m.len, Len(s)), rule)
        From(i) == IF i = 0 THEN s ELSE Replace(i, MatchAt(SubSeq(s, i, Len(s)), rule))
    IN From(IF \E i \in 1..Len(s) : MatchAt(SubSeq(s, i, Len(s)), rule).len > 0
            THEN CHOOSE i \in 1..Len(s) :
                     /\ MatchAt(SubSeq(s, i, Len(s)), rule).len > 0
                     /\ \A j \in 1..(i - 1) : MatchAt(SubSeq(s, j, Len(s)), rule).len = 0
            ELSE 0)

RECURSIVE RewriteAll(_, _)
\* A chain of replace calls, in the order of rules (nothing is left to
\* replace in the empty string).
RewriteAll(s, rules) ==
    IF rules = <<>> \/ s = <<>> THEN s
    ELSE RewriteAll(Rewrite(s, rules[1]), Tail(rules))

\* One call of replace in a chain.
Rule(kind, pat, rep) == [kind |-> kind, pat |-> pat, rep |-> rep]

\* ------------------------------------------------- the diagram compiler

\* The characters outside ASCII that label cleaning writes, and the
\* backtick of a code fence, each one character of a string.
Glyph ==
    [triangle |-> "U+25B3", angle |-> "U+2220", perp |-> "U+22A5",
     parallel |-> "U+2225", rightarrow |-> "U+2192", Rightarrow |-> "U+21D2",
     Leftrightarrow |-> "U+21D4", degree |-> "U+00B0", sim |-> "U+223D",
     cong |-> "U+2245", equiv |-> "U+2261", in |-> "U+2208",
     subset |-> "U+2282", cdot |-> "U+2022", times |-> "U+00D7",
     squared |-> "U+00B2", backtick |-> "U+0060"]

\* The replace calls of cleanLabelText, in their order.
cleanRules ==
    <<Rule("wrap", <<"\\", "t", "e", "x", "t", "{">>, <<>>),
      Rule("wrap", <<"\\", "b", "o", "x", "e", "d", "{">>, <<>>),
      Rule("wrap", <<"\\", "m", "a", "t", "h", "b", "f", "{">>, <<>>),
      Rule("wrap", <<"\\", "m", "a", "t", "h", "r", "m", "{">>, <<>>),
      Rule("lit", <<"\\", "l", "e", "f", "t">>, <<>>),
      Rule("lit", <<"\\", "r", "i", "g", "h", "t">>, <<>>),
      Rule("lit", <<"\\", "t", "r", "i", "a", "n", "g", "l", "e">>, <<Glyph.triangle>>),
      Rule("lit", <<"\\", "a", "n", "g", "l", "e">>, <<Glyph.angle>>),
      Rule("lit", <<"\\", "p", "e", "r", "p">>, <<Glyph.perp>>),
      Rule("lit", <<"\\", "p", "a", "r", "a", "l", "l", "e", "l">>, <<Glyph.parallel>>),
      Rule("lit", <<"\\", "r", "i", "g", "h", "t", "a", "r", "r", "o", "w">>, <<Glyph.rightarrow>>),
      Rule("lit", <<"\\", "R", "i", "g", "h", "t", "a", "r", "r", "o", "w">>, <<Glyph.Rightarrow>>),
      Rule("lit", <<"\\", "L", "e", "f", "t", "r", "i", "g", "h", "t", "a", "r", "r", "o", "w">>, <<Glyph.Leftrightarrow>>),
      Rule("lit", <<"\\", "c", "i", "r", "c">>, <<Glyph.degree>>),
      Rule("lit", <<"\\", "s", "i", "m">>, <<Glyph.sim>>),
      Rule("lit", <<"\\", "c", "o", "n", "g">>, <<Glyph.cong>>),
      Rule("lit", <<"\\", "e", "q", "u", "i", "v">>, <<Glyph.equiv>>),
      Rule("lit", <<"\\", "i", "n">>, <<Glyph.in>>),
      Rule("lit", <<"\\", "s", "u", "b", "s", "e", "t">>, <<Glyph.subset>>),
      Rule("lit", <<"\\", "c", "d", "o", "t">>, <<Glyph.cdot>>),
      Rule("lit", <<"\\", "t", "i", "m", "e", "s">>, <<Glyph.times>>),
      Rule("wrap", <<"\\", "w", "i", "d", "e", "h", "a", "t", "{">>, <<Glyph.angle>>),
      Rule("wrap", <<"\\", "h", "a", "t", "{">>, <<Glyph.angle>>),
      Rule("wrap", <<"\\", "o", "v", "e", "r", "l", "i", "n", "e", "{">>, <<>>),
      Rule("frac", <<"\\", "f", "r", "a", "c", "{">>, <<>>),
      Rule("lit", <<"^", "{", "2", "}">>, <<Glyph.squared>>),
      Rule("lit", <<"^", "{", "c", "i", "r", "c", "}">>, <<Glyph.degree>>),
      Rule("sub", <<"_">>, <<>>),
      Rule("br", <<"<", "b", "r">>, <<"\n">>),
      Rule("tag", <<"<">>, <<>>),
      Rule("lit", <<"$">>, <<>>),
      Rule("lit", <<"\\">>, <<>>)>>

\* cleanLabelText(text): a Str, or Throw when text is a truthy value
\* without a replace method.
cleanLabelText(text) ==
    IF ~Truthy(text) THEN Str(<<>>)
    ELSE IF text.t # "string" THEN Throw
    ELSE Str(Trim(RewriteAll(text.s, cleanRules)))

RECURSIVE Split(_, _)
\* str.split(sep) for a separator of one character.
Split(str, sep) ==
    LET Cut(i) == IF i = 0 THEN <<str>>
                  ELSE <<SubSeq(str, 1, i - 1)>> \o Split(SubSeq(str, i + 1, Len(str)), sep)
    IN Cut(FirstOf(str, sep, 1))

RECURSIVE wrapWords(_, _, _)
\* The forEach of wrap over the words left, with the line being filled
\* and the lines already closed.
wrapWords(words, line, result) ==
    IF words = <<>> THEN result \o Trim(line)
    ELSE LET maxLen == 22
             over == Len(line) + Len(words[1]) > maxLen
         IN wrapWords(Tail(words),
                      (IF over THEN <<>> ELSE line) \o words[1] \o <<" ">>,
                      IF over THEN result \o Trim(line) \o <<"\n">> ELSE result)

\* formatLabel(n): the quoted label of a node, or Throw.
formatLabel(n, showTheory) ==
    LET Quoted(labelText) == Str(<<"\"">> \o labelText \o <<"\"">>)
        WithMethod(labelText, cleanMethod) ==
            IF cleanMethod = Throw THEN Throw
            ELSE IF Len(cleanMethod.s) < 35
            THEN Quoted(labelText \o <<"\n", "[">> \o cleanMethod.s \o <<"]">>)
            ELSE Quoted(labelText)
        Build(cleanStatement, method) ==
            IF cleanStatement = Throw \/ method = Throw THEN Throw
            ELSE IF showTheory /\ Truthy(method)
            THEN WithMethod(Rewrite(wrapWords(Split(cleanStatement.s, " "), <<>>, <<>>),
                                    Rule("lit", <<"\"">>, <<"'">>)),
                            cleanLabelText(method))
            ELSE Quoted(Rewrite(wrapWords(Split(cleanStatement.s, " "), <<>>, <<>>),
                                Rule("lit", <<"\"">>, <<"'">>)))
    IN Build(cleanLabelText(Or(Get(n, Key.statement), Str(ellipsis))), Get(n, Key.method))

\* let chartDir = 'BT'; if (!showAnalysisArrows && showProofArrows) chartDir = 'TD'
chartDir(opts) ==
    IF ~opts.showAnalysisArrows /\ opts.showProofArrows THEN "TD" ELSE "BT"

\* An edge line whatever the toggles: the parent, an arrow, the child.
edgeParentFirst(id, childId, opts) ==
    [edges |-> <<[from |-> id, arrow |-> "-->", to |-> childId]>>,
     stroke |-> "#94a3b8", width |-> "1px"]

\* What the forEach body emits for one parent-child pair: the edge line
\* `    ${from} ${arrow} ${to}\n` appended to edges (no line in the branch
\* that appends none) and the stroke of the pair's linkStyle line.
edgeFor(id, childId, opts) ==
    LET analysisColor == IF opts.theme = "warm" THEN "#14b8a6" ELSE "#2563eb"
        proofColor == IF opts.theme = "warm" THEN "#f97316" ELSE "#dc2626"
        bothColor == "#6366f1"
        Line(from, arrowSyntax, to) == [from |-> from, arrow |-> arrowSyntax, to |-> to]
    IN IF chartDir(opts) = "BT"
       THEN IF opts.showAnalysisArrows /\ opts.showProofArrows
            THEN [edges |-> <<Line(id, "<-->", childId)>>, stroke |-> bothColor, width |-> "2px"]
            ELSE IF opts.showAnalysisArrows
            THEN [edges |-> <<Line(id, "-->", childId)>>, stroke |-> analysisColor, width |-> "2px"]
            ELSE [edges |-> <<Line(id, "---", childId)>>, stroke |-> "#94a3b8", width |-> "1px"]
       ELSE IF opts.showProofArrows
            THEN [edges |-> <<Line(childId, "-->", id)>>, stroke |-> proofColor, width |-> "2px"]
            ELSE [edges |-> <<>>, stroke |-> "#94a3b8", width |-> "1px"]

\* getNodeId(n), for the node at path (the list of child positions that
\* lead to it from the root): nodeMap is keyed by object, and every node
\* of a sanitized tree is an object of its own.  Gives the compile state
\* with the node's id on record, drawn when it had none.
getNodeId(acc, path, rand) ==
    IF \E i \in 1..Len(acc.nodeMap) : acc.nodeMap[i].node = path THEN acc
    ELSE [acc EXCEPT !.nodeMap = @ \o <<[node |-> path, id |-> <<"n">> \o Draw(rand, acc.k)]>>,
                     !.k = @ + 1]

\* nodeMap.get(n) for the node at path.
idOf(acc, path) ==
    acc.nodeMap[CHOOSE i \in 1..Len(acc.nodeMap) : acc.nodeMap[i].node = path].id

RECURSIVE traverse(_, _, _, _, _)
RECURSIVE traverseChildren(_, _, _, _, _, _)

\* traverse(n) for the node at path, from the compile state acc: the
\* accumulators nodesDefinition, edges and linkStyles, one element for
\* each text appended, nodeMap, the index k of the next random draw, and
\* whether an exception is on its way out.
traverse(n, path, acc, opts, rand) ==
    IF acc.threw \/ ~Truthy(n) THEN acc
    ELSE LET Declared(withId, label) ==
                 IF label = Throw THEN [withId EXCEPT !.threw = TRUE]
                 ELSE traverseChildren(n, path, 1,
                          [withId EXCEPT !.nodes = @ \o
                              <<[id |-> idOf(withId, path),
                                 label |-> label.s,
                                 styleClass |->
                                     IF Get(n, Key.type) = Str(ROOT) THEN "rootNode"
                                     ELSE IF Get(n, Key.type) = Str(LEAF) THEN "leafNode"
                                     ELSE "defaultNode"]>>],
                          opts, rand)
         IN Declared(getNodeId(acc, path, rand), formatLabel(n, opts.showTheory))

\* n.children.forEach(...) from the child at position i on.
traverseChildren(n, path, i, acc, opts, rand) ==
    IF acc.threw \/ ~IsArray(Get(n, Key.children)) THEN acc
    ELSE IF i > Len(Get(n, Key.children).a) THEN acc
    ELSE IF ~Truthy(Get(n, Key.children).a[i])
    THEN traverseChildren(n, path, i + 1, acc, opts, rand)
    ELSE LET Linked(withChild, e) ==
                 [withChild EXCEPT
                     !.edges = @ \o e.edges,
                     !.linkStyles = @ \o <<[index |-> Len(withChild.linkStyles),
                                            stroke |-> e.stroke, width |-> e.width]>>]
             Styled(withChild) ==
                 Linked(withChild, edgeFor(idOf(withChild, path), idOf(withChild, path \o <<i>>), opts))
             Then(after) == traverseChildren(n, path, i + 1, after, opts, rand)
         IN Then(traverse(Get(n, Key.children).a[i], path \o <<i>>,
                          Styled(getNodeId(acc, path \o <<i>>, rand)), opts, rand))

\* generateMermaidSource(rootNode) under the props opts and the random
\* stream rand: [threw |-> TRUE] when it throws, else the parts its
\* template lays out: the layout direction, the three classDef lines, the
\* node declarations `    ${id}[${label}]:::${styleClass}\n`, the edge
\* lines and the linkStyle lines.
generateMermaidSource(rootNode, opts, rand) ==
    LET Class(fill, stroke, width, r, color) ==
            [fill |-> fill, stroke |-> stroke, width |-> width, r |-> r, color |-> color]
        classDefs ==
            CASE opts.theme = "warm" ->
                   [defaultNode |-> Class("#ffffff", "#cbd5e1", "1px", 4, "#334155"),
                    rootNode |-> Class("#fff7ed", "#f97316", "2px", 6, "#7c2d12"),
                    leafNode |-> Class("#f0fdfa", "#14b8a6", "2px", 4, "#134e4a")]
              [] opts.theme = "minimal" ->
                   [defaultNode |-> Class("#ffffff", "#000000", "1px", 4, "#000000"),
                    rootNode |-> Class("#ffffff", "#000000", "2px", 6, "#000000"),
                    leafNode |-> Class("#ffffff", "#000000", "2px", 4, "#000000")]
              [] OTHER ->
                   [defaultNode |-> Class("#ffffff", "#cbd5e1", "1px", 4, "#334155"),
                    rootNode |-> Class("#eff6ff", "#3b82f6", "2px", 6, "#1e3a8a"),
                    leafNode |-> Class("#f0fdf4", "#22c55e", "2px", 4, "#14532d")]
        Source(acc) ==
            IF acc.threw THEN [threw |-> TRUE]
            ELSE IF acc.nodes = <<>>
            THEN [threw |-> FALSE, dir |-> "BT", classDefs |-> <<>>,
                  nodes |-> <<[id |-> <<"e", "m", "p", "t", "y", "N", "o", "d", "e">>,
                               label |-> <<"\"", "K", "h", "o", "n", "g", " ", "c", "o", " ", "d", "u", " ", "l", "i", "e", "u", "\"">>,
                               styleClass |-> ""]>>,
                  edges |-> <<>>, linkStyles |-> <<>>, nodeMap |-> <<>>]
            ELSE [threw |-> FALSE, dir |-> chartDir(opts), classDefs |-> classDefs,
                  nodes |-> acc.nodes, edges |-> acc.edges,
                  linkStyles |-> acc.linkStyles, nodeMap |-> acc.nodeMap]
    IN Source(traverse(rootNode, <<>>,
                       [threw |-> FALSE, nodes |-> <<>>, edges |-> <<>>,
                        linkStyles |-> <<>>, nodeMap |-> <<>>, k |-> 1],
                       opts, rand))

\* ------------------------------------------------ analyzeGeometryProblem

FALLBACK_MODELS == <<"gemini-3-pro-preview", "gemini-2.5-flash", "gemini-flash-lite-latest">>

errCredential == "Vui long nhap Gemini API Key de su dung ung dung."
errGeneric == "Khong the xu ly yeu cau vao luc nay."
errNoInput == "Vui long nhap de bai hoac tai len anh bai toan."
errSubmitFallback == "Co loi xay ra khi phan tich bai toan."
errRefineFallback == "Co loi xay ra khi cap nhat so do."

\* An Error: its message and the candidate whose attempt raised it ("" for
\* an error raised outside the loop).
Error(by, msg) == [by |-> by, msg |-> msg]
\* lastError = null
\* --------------------------------------------------- the text functions

\* A normalizer that writes \hat for \angle after it has looked for \hat.
normalizeByHat(latex) ==
    RewriteAll(latex,
        <<Rule("arg", <<"\\", "h", "a", "t">>, <<"\\", "w", "i", "d", "e", "h", "a", "t", "{">>),
          Rule("arg", <<"\\", "a", "n", "g", "l", "e">>, <<"\\", "h", "a", "t", "{">>),
          Rule("argws", <<"\\", "w", "i", "d", "e", "h", "a", "t">>, <<"\\", "w", "i", "d", "e", "h", "a", "t", "{">>),
          Rule("deg", <<>>, <<"^", "\\", "c", "i", "r", "c">>)>>)
\* normalizeLatex (part_001 lines 347-360): \angle and \hat become
\* \widehat, the argument of \widehat loses the spaces around it, and a bare
\* degree gets its \circ.  The fifth replace puts every \text{...} back as
\* it was.
normalizeLatex(latex) ==
    RewriteAll(latex,
        <<Rule("arg", <<"\\", "a", "n", "g", "l", "e">>, <<"\\", "w", "i", "d", "e", "h", "a", "t", "{">>),
          Rule("arg", <<"\\", "h", "a", "t">>, <<"\\", "w", "i", "d", "e", "h", "a", "t", "{">>),
          Rule("argws", <<"\\", "w", "i", "d", "e", "h", "a", "t">>, <<"\\", "w", "i", "d", "e", "h", "a", "t", "{">>),
          Rule("deg", <<>>, <<"^", "\\", "c", "i", "r", "c">>)>>)

RECURSIVE splitDropped(_, _)
\* split by the expression without its capturing group: the matches are
\* not among the parts.
splitDropped(s, re) ==
    LET hit == {i \in 1..Len(s) : s[i] \in {"$", "*"}}
    IN IF hit = {} THEN <<s>>
       ELSE LET i == CHOOSE x \in hit : \A y \in hit : x <= y
            IN <<SubSeq(s, 1, i - 1)>> \o splitDropped(SubSeq(s, i + 1, Len(s)), re)

RECURSIVE splitRegex(_, _)
\* s.split(re) for the two expressions of processSegment, each one
\* capturing group: the text before the leftmost match, the match, and
\* the parts of what follows it.
\*   "math"  /(\$\$[\s\S]*?\$\$|\\\[[\s\S]*?\\\]|\\\([\s\S]*?\\\)|(?:\$)(?:[^$]|\\[\s\S])*(?:\$))/g
\*   "bold"  /(\*\*[^*]+\*\*)/g
\* The last alternative of "math" ends at the first $ after the opening
\* one: [^$] takes a backslash too, and the run cannot pass a $.
splitRegex(s, re) ==
    LET Pair(i, a, b) == i < Len(s) /\ s[i] = a /\ s[i + 1] = b
        \* The end of the first a b from position `from` on, 0 for none.
        Close(from, a, b) ==
            IF \E j \in from..Len(s) : Pair(j, a, b)
            THEN 1 + CHOOSE j \in from..Len(s) :
                         Pair(j, a, b) /\ \A l \in from..(j - 1) : ~Pair(l, a, b)
            ELSE 0
        \* The end of the match that starts at i, 0 for none.
        EndAt(i) ==
            IF re = "bold"
            THEN IF Pair(i, "*", "*") /\ Len(s) > i + 1 /\ s[i + 2] # "*"
                      /\ FirstOf(s, "*", i + 3) # 0
                 THEN IF Pair(FirstOf(s, "*", i + 3), "*", "*")
                      THEN FirstOf(s, "*", i + 3) + 1 ELSE 0
                 ELSE 0
            ELSE IF Pair(i, "$", "$") /\ Close(i + 2, "$", "$") # 0 THEN Close(i + 2, "$", "$")
            ELSE IF Pair(i, "\\", "[") /\ Close(i + 2, "\\", "]") # 0 THEN Close(i + 2, "\\", "]")
            ELSE IF Pair(i, "\\", "(") /\ Close(i + 2, "\\", ")") # 0 THEN Close(i + 2, "\\", ")")
            ELSE IF s[i] = "$" THEN FirstOf(s, "$", i + 1)
            ELSE 0
        Cut(i, end) ==
            <<SubSeq(s, 1, i - 1), SubSeq(s, i, end)>> \o splitRegex(SubSeq(s, end + 1, Len(s)), re)
        At(i) == IF i = 0 THEN <<s>> ELSE Cut(i, EndAt(i))
    IN At(IF \E i \in 1..Len(s) : EndAt(i) # 0
          THEN CHOOSE i \in 1..Len(s) : EndAt(i) # 0 /\ \A j \in 1..(i - 1) : EndAt(j) = 0
          ELSE 0)

\* processSegment (part_001 lines 387-453): the segments made of one
\* string, each with its kind, the content that is rendered and src, the
\* part of the string it was made from.
processSegment(segment) ==
    LET Seg(kind, content, src) == [kind |-> kind, content |-> content, src |-> src]
        Slice(part, n) == SubSeq(part, n + 1, Len(part) - n)
        Around(part, open, close) == StartsWith(part, open) /\ EndsWith(part, close)
        Letter(c) == IsAlnum(c) /\ \A d \in 1..Len(Digits) : c # Digits[d]
        hasLatexCommand(part) ==
            \E i \in 1..Len(part) :
                \/ part[i] = "\\" /\ i < Len(part) /\ Letter(part[i + 1])
                \/ part[i] \in {"=", "+", "-", ">", "<", "^"}
        isJustWords(part) ==
            \A i \in 1..Len(part) :
                IsAlnum(part[i]) \/ part[i] \in WhiteSpace \cup {".", ",", ":", ";", "\"", "'", "(", ")"}
        Bold(subPart) ==
            IF Around(subPart, <<"*", "*">>, <<"*", "*">>) THEN Seg("bold", Slice(subPart, 2), subPart)
            ELSE Seg("text", subPart, subPart)
        boldSplit(part) ==
            LET subParts == splitRegex(part, "bold")
            IN [j \in 1..Len(subParts) |-> Bold(subParts[j])]
        Of(part) ==
            IF part = <<>> THEN <<>>
            ELSE IF Around(part, <<"$", "$">>, <<"$", "$">>) THEN <<Seg("block", Slice(part, 2), part)>>
            ELSE IF Around(part, <<"\\", "[">>, <<"\\", "]">>) THEN <<Seg("block", Slice(part, 2), part)>>
            ELSE IF Around(part, <<"\\", "(">>, <<"\\", ")">>) THEN <<Seg("inline", Slice(part, 2), part)>>
            ELSE IF Around(part, <<"$">>, <<"$">>) THEN <<Seg("inline", Slice(part, 1), part)>>
            ELSE IF /\ hasLatexCommand(part) /\ ~isJustWords(part)
                    /\ Len(part) < 50
                    /\ \E i \in 1..Len(part) : part[i] \in {"\\", "="}
                 THEN <<Seg("inline", part, part)>>
            ELSE boldSplit(part)
        parts == splitRegex(segment, "math")
        pushed[k \in 0..Len(parts)] == IF k = 0 THEN <<>> ELSE pushed[k - 1] \o Of(parts[k])
    IN pushed[Len(parts)]

\* MathDisplay (part_001 lines 343-345, 455-472): nothing for an empty
\* text; one row of segments in inline mode; in block mode a row for each
\* line, trimmed, and a spacer for a line that is blank.
MathDisplay(txt, block) ==
    LET lines == Split(txt, "\n")
        Row(line) == IF line = <<>> THEN [spacer |-> TRUE, parts |-> <<>>]
                     ELSE [spacer |-> FALSE, parts |-> processSegment(line)]
    IN IF txt = <<>> THEN <<>>
       ELSE IF ~block THEN <<[spacer |-> FALSE, parts |-> processSegment(txt)]>>
       ELSE [k \in 1..Len(lines) |-> Row(Trim(lines[k]))]

\* extractJson (geminiService.ts lines 122-144).
extractJson(txt) ==
    LET Unfenced(t) ==
            IF Len(t) >= 7 /\ SubSeq(t, 1, 3) = <<Glyph.backtick, Glyph.backtick, Glyph.backtick>>
                           /\ t[4] \in {"j", "J"} /\ t[5] \in {"s", "S"}
                           /\ t[6] \in {"o", "O"} /\ t[7] \in {"n", "N"}
            THEN SubSeq(t, CHOOSE q \in 8..(Len(t) + 1) :
                               /\ \A j \in 8..(q - 1) : t[j] \in WhiteSpace
                               /\ q <= Len(t) => t[q] \notin WhiteSpace,
                        Len(t))
            ELSE t
        Unclosed(t) == IF EndsWith(t, <<Glyph.backtick, Glyph.backtick, Glyph.backtick>>) THEN SubSeq(t, 1, Len(t) - 3) ELSE t
        Scan(clean) ==
            LET start == FirstOf(clean, "{", 1)
                braceCount(i) ==
                    Cardinality({j \in start..i : clean[j] = "{"})
                        - Cardinality({j \in start..i : clean[j] = "}"})
                ends == {i \in start..Len(clean) : braceCount(i) = 0}
            IN IF start = 0 \/ ends = {} THEN clean
               ELSE SubSeq(clean, start, CHOOSE i \in ends : \A j \in ends : i <= j)
        IN Scan(Trim(Unclosed(Unfenced(txt))))

\* repairJsonString (geminiService.ts lines 146-148): every backslash that
\* is not followed by one of \ " / b f n r t u is doubled.
repairJsonString(str) == Rewrite(str, Rule("bare", <<"\\">>, <<"\\", "\\">>))

\* JSON.parse as far as its outcome goes, for texts made of objects,
\* strings and digits without white space: whether the text parses and,
\* if not, the position of the character that is in the way.
JSONparse(str) ==
    LET n == Len(str)
        Ch(i) == IF i <= n THEN str[i] ELSE "EOF"
        Ok(i) == [ok |-> TRUE, at |-> i]
        Bad(i) == [ok |-> FALSE, at |-> i]
        IsDigit(c) == \E d \in 1..Len(Digits) : c = Digits[d]
        IsHex(c) == IsDigit(c) \/ c \in {"a", "b", "c", "d", "e", "f", "A", "B", "C", "D", "E", "F"}
        \* go[<<"s", i>>]: the rest of a string from i on; go[<<"v", i>>]: a
        \* value at i; go[<<"m", i>>]: the members of an object from i on.
        \* Each gives the position after what it read, or the bad one.
        go[x \in {"s", "v", "m"} \X (1..(n + 2))] ==
            LET i == x[2]
                After(r, c) == r.ok /\ Ch(r.at) = c
                Member(k) ==
                    LET Valued(v) ==
                            IF ~v.ok THEN v
                            ELSE IF Ch(v.at) = "," THEN go[<<"m", v.at + 1>>]
                            ELSE IF Ch(v.at) = "}" THEN Ok(v.at + 1)
                            ELSE Bad(v.at)
                    IN IF ~k.ok THEN k
                       ELSE IF Ch(k.at) # ":" THEN Bad(k.at)
                       ELSE Valued(go[<<"v", k.at + 1>>])
            IN CASE x[1] = "s" ->
                      IF i > n THEN Bad(i)
                      ELSE IF str[i] = "\"" THEN Ok(i + 1)
                      ELSE IF str[i] = "\n" THEN Bad(i)
                      ELSE IF str[i] # "\\" THEN go[<<"s", i + 1>>]
                      ELSE IF Ch(i + 1) \in {"\\", "\"", "/", "b", "f", "n", "r", "t"}
                      THEN go[<<"s", i + 2>>]
                      ELSE IF Ch(i + 1) = "u" /\ \A j \in (i + 2)..(i + 5) : IsHex(Ch(j))
                      THEN go[<<"s", i + 6>>]
                      ELSE IF Ch(i + 1) = "u"
                      THEN Bad(CHOOSE j \in (i + 2)..(i + 5) :
                                   ~IsHex(Ch(j)) /\ \A l \in (i + 2)..(j - 1) : IsHex(Ch(l)))
                      ELSE Bad(i + 1)
                 [] x[1] = "v" ->
                      IF Ch(i) = "\"" THEN go[<<"s", i + 1>>]
                      ELSE IF IsDigit(Ch(i))
                      THEN Ok(CHOOSE q \in (i + 1)..(n + 1) :
                                  /\ \A j \in i..(q - 1) : IsDigit(str[j])
                                  /\ ~IsDigit(Ch(q)))
                      ELSE IF Ch(i) = "{"
                      THEN IF Ch(i + 1) = "}" THEN Ok(i + 2) ELSE go[<<"m", i + 1>>]
                      ELSE Bad(i)
                 [] x[1] = "m" ->
                      IF Ch(i) = "\"" THEN Member(go[<<"s", i + 1>>]) ELSE Bad(i)
        Whole(r) == IF r.ok /\ r.at <= n THEN Bad(r.at) ELSE r
    IN Whole(go[<<"v", 1>>])

\* A candidate that names the failure of the second parse.
parseNamingSecond(textResponse) ==
    LET jsonString == extractJson(textResponse)
        e1 == JSONparse(jsonString)
        e2 == JSONparse(repairJsonString(jsonString))
    IN IF e1.ok THEN [parsed |-> <<jsonString>>, tried |-> <<jsonString>>, thrown |-> <<>>]
       ELSE IF e2.ok
       THEN [parsed |-> <<repairJsonString(jsonString)>>,
             tried |-> <<jsonString, repairJsonString(jsonString)>>, thrown |-> <<>>]
       ELSE [parsed |-> <<>>, tried |-> <<jsonString, repairJsonString(jsonString)>>,
             thrown |-> <<[name |-> "JSON Syntax Error", at |-> e2.at]>>]
\* The parse of a candidate's response text (geminiService.ts lines
\* 163-175): the text that parsed, if one did, the texts handed to
\* JSON.parse in their order, and the error thrown, which carries e1.
parseResponse(textResponse) ==
    LET jsonString == extractJson(textResponse)
        e1 == JSONparse(jsonString)
        e2 == JSONparse(repairJsonString(jsonString))
    IN IF e1.ok THEN [parsed |-> <<jsonString>>, tried |-> <<jsonString>>, thrown |-> <<>>]
       ELSE IF e2.ok
       THEN [parsed |-> <<repairJsonString(jsonString)>>,
             tried |-> <<jsonString, repairJsonString(jsonString)>>, thrown |-> <<>>]
       ELSE [parsed |-> <<>>, tried |-> <<jsonString, repairJsonString(jsonString)>>,
             thrown |-> <<[name |-> "JSON Syntax Error", at |-> e1.at]>>]

NoError == [by |-> "", msg |-> "null"]

\* The value of the sanitizer's result before the sanitizer has been called.
NotCalled == [t |-> "not called"]

VARIABLES
    prompt,     \* App: the problem text ("" when empty)
    image,      \* App: the attached picture ("" for null)
    loading,    \* App: the busy flag
    result,     \* App: the GeometryResponse on display, or Null
    error,      \* App: the message on display ("null" for null)
    envApiKey,  \* process.env.API_KEY ("" when not configured)
    calls,      \* the analyzeGeometryProblem calls that are running
    inflight,   \* generateContent requests awaiting their response
    last,       \* how the call that completed last went
    started,    \* the number of calls made so far
    given,      \* the value handed to sanitizeLogicNode on its own
    cleaned,    \* what sanitizeLogicNode made of it
    data,       \* MermaidDiagram: the tree to draw
    options,    \* MermaidDiagram: showTheory, theme and the arrow toggles
    compiled,   \* what generateMermaidSource made of them
    pending,    \* MermaidDiagram: the mermaid.render promises not yet settled
    canvas,     \* MermaidDiagram: svgContent and renderError
    view,       \* ResultDisplay: its state
    expanded,   \* InteractiveMindMap: the expanded flag of each mounted NodeItem
    input,      \* the string handed to a text function on its own
    output      \* what the text function made of it

vars == <<prompt, image, loading, result, error, envApiKey, calls, inflight, last, started,
          given, cleaned, data, options, compiled, pending, canvas,
          view, expanded, input, output>>
appVars == <<prompt, image, loading, result, error>>
callVars == <<calls, inflight, last, started>>
nodeVars == <<given, cleaned>>
diagramVars == <<data, options, compiled, pending, canvas>>
viewVars == <<view, expanded>>
textVars == <<input, output>>
\* What the App and analyzeGeometryProblem leave alone: the state of the
\* functions and components that are run on their own.
harnessVars == <<nodeVars, diagramVars, viewVars, textVars>>

\* A slot with no call running in it.  A running call keeps who called it
\* and with which key, its lastError, the candidates it has requested and,
\* for each attempt that has ended, whether it succeeded and the error it
\* raised.  outlived is a mark for the properties, which the program does
\* not keep: whether handleReset ran while the call was outstanding.
Idle ==
    [kind |-> "none", userApiKey |-> "", lastError |-> NoError,
     attempts |-> <<>>, oks |-> <<>>, errs |-> <<>>, outlived |-> FALSE]

\* The record of a completed call: the call as it ended, the error it
\* threw or the response it returned, and the parsed document that
\* response was made from.
Completed(call, status, thrown, doc, ret) ==
    [kind |-> call.kind, userApiKey |-> call.userApiKey, status |-> status,
     attempts |-> call.attempts, oks |-> call.oks, errs |-> call.errs,
     thrown |-> thrown, doc |-> doc, ret |-> ret]

\* The state of ResultDisplay when it is mounted (useState, lines 18-33):
\* no branch chosen, the analysis tab, the interactive map, the default
\* theme, the analysis arrows on, the proof arrows off, no node selected.
\* selectedNode is Null or the place of the selected LogicNode object in
\* the response: its branch and its path of child indices.
InitialView ==
    [selectedBranchId |-> Null, activeTab |-> "analysis", viewMode |-> "interactive",
     theme |-> "default", showAnalysisArrows |-> TRUE, showProofArrows |-> FALSE,
     selectedNode |-> Null]

\* The components named in parts are in their initial state, with
\* nothing handed to them yet.
AtRest(parts) ==
    /\ IF "app" \in parts
       THEN /\ prompt = ""
            /\ image = ""
            /\ loading = FALSE
            /\ result = Null
            /\ error = "null"
            /\ calls = [c \in 1..MaxCalls |-> Idle]
            /\ inflight = {}
            /\ last = Completed(Idle, "none", NoError, 0, Undefined)
            /\ started = 0
       ELSE TRUE
    /\ IF "node" \in parts THEN given = Undefined /\ cleaned = NotCalled ELSE TRUE
    /\ IF "diagram" \in parts
       THEN /\ data = Undefined /\ options = Undefined /\ compiled = NotCalled
            /\ pending = <<>>
            /\ canvas = [svgContent |-> "", renderError |-> "null"]
       ELSE TRUE
    /\ IF "view" \in parts THEN view = InitialView /\ expanded = <<>> ELSE TRUE
    /\ IF "text" \in parts THEN input = <<>> /\ output = NotCalled ELSE TRUE

Running == {c \in 1..MaxCalls : calls[c] # Idle}

IndexOf(model) == CHOOSE i \in 1..Len(FALLBACK_MODELS) : FALLBACK_MODELS[i] = model

\* const apiKey = userApiKey || process.env.API_KEY
apiKeyOf(userApiKey, env) == IF userApiKey # "" THEN userApiKey ELSE env

\* A pipeline that goes on without a key.
missingKeyIgnored(apiKey) == FALSE

\* if (!apiKey) throw ...
missingKey(apiKey) == apiKey = ""

\* A loop that requests candidate i and every later one at once.
requestsForAll(c, i, apiKey) ==
    {[call |-> c, model |-> FALLBACK_MODELS[j], apiKey |-> apiKey] :
        j \in i..Len(FALLBACK_MODELS)}

\* The request the loop issues for candidate i of call c, through the
\* client built with apiKey.
requestsFor(c, i, apiKey) ==
    {[call |-> c, model |-> FALLBACK_MODELS[i], apiKey |-> apiKey]}

\* A catch block that keeps the first error it saw.
recordFirstError(prev, err) == IF prev = NoError THEN err ELSE prev

\* lastError = error, in the catch block.
recordError(prev, err) == err

\* A loop that does not return from inside the try block.
continuesAfterSuccess(ok, i) == i < Len(FALLBACK_MODELS)

\* Whether the loop goes on to candidate i + 1: the try block returned
\* from the function when it succeeded.
continues(ok, i) == ~ok /\ i < Len(FALLBACK_MODELS)

\* throw lastError || new Error(...)
surfaced(lastError) ==
    IF lastError # NoError THEN lastError ELSE Error("", errGeneric)

\* analyzeGeometryProblem from its entry to its first await: the key
\* check, then the request to the first candidate.
analyzeStart(kind, userApiKey) ==
    /\ started < MaxCalls
    /\ started' = started + 1
    /\ LET c == CHOOSE n \in 1..MaxCalls :
                    calls[n] = Idle /\ \A m \in 1..(n - 1) : calls[m] # Idle
           fresh == [Idle EXCEPT !.kind = kind, !.userApiKey = userApiKey]
           apiKey == apiKeyOf(userApiKey, envApiKey)
       IN IF missingKey(apiKey)
          THEN /\ last' = Completed(fresh, "threw", Error("", errCredential), 0, Undefined)
               /\ UNCHANGED <<calls, inflight>>
          ELSE /\ calls' = [calls EXCEPT ![c] =
                               [fresh EXCEPT !.attempts = <<FALLBACK_MODELS[1]>>]]
               /\ inflight' = inflight \cup requestsFor(c, 1, apiKey)
               /\ UNCHANGED last
    /\ UNCHANGED <<envApiKey, harnessVars>>

\* How the try block for candidate i ends on response res.
stepOutcome(i, res) ==
    IF continues(res.ok, i) THEN "next" ELSE IF res.ok THEN "return" ELSE "throw"

\* analyzeGeometryProblem from the response to request r up to its next
\* await, its return or its final throw.
analyzeResume(r, res) ==
    LET c == r.call
        call == calls[c]
        i == IndexOf(r.model)
        err == IF res.ok THEN NoError ELSE Error(r.model, res.msg)
        seen == [call EXCEPT !.oks = call.oks \o <<res.ok>>,
                             !.errs = call.errs \o <<err>>,
                             !.lastError = IF res.ok THEN call.lastError
                                           ELSE recordError(call.lastError, err)]
    IN /\ inflight' = (inflight \ {r})
                      \cup (IF continues(res.ok, i) THEN requestsFor(c, i + 1, r.apiKey) ELSE {})
       /\ CASE stepOutcome(i, res) = "next" ->
                 /\ calls' = [calls EXCEPT ![c] =
                                 [seen EXCEPT !.attempts = call.attempts \o <<FALLBACK_MODELS[i + 1]>>]]
                 /\ UNCHANGED last
            [] stepOutcome(i, res) = "return" ->
                 /\ calls' = [calls EXCEPT ![c] = Idle]
                 /\ last' = Completed(seen, "returned", NoError, res.doc, res.data)
            [] stepOutcome(i, res) = "throw" ->
                 /\ calls' = [calls EXCEPT ![c] = Idle]
                 /\ last' = Completed(seen, "threw", surfaced(seen.lastError), 0, Undefined)
       /\ UNCHANGED <<envApiKey, started, harnessVars>>

\* ------------------------------------------------------------------- App

\* disabled={loading} on the submit button.
submitEnabled(busy) == ~busy

\* err.message || fallback, in the handlers' catch blocks.
messageOf(err, kind) ==
    IF err.msg # "" THEN err.msg
    ELSE IF kind = "submit" THEN errSubmitFallback ELSE errRefineFallback

Init ==
    /\ envApiKey \in {"", "env-key"}
    /\ AtRest({"app", "node", "diagram", "view", "text"})

\* onChange of the problem textarea (rendered while no result is shown).
setPrompt(text) ==
    /\ result = Null
    /\ text # prompt
    /\ prompt' = text
    /\ UNCHANGED <<image, loading, result, error, envApiKey, callVars, harnessVars>>

handleImageUpload ==
    /\ result = Null
    /\ image = ""
    /\ image' = "base64"
    /\ UNCHANGED <<prompt, loading, result, error, envApiKey, callVars, harnessVars>>

handleRemoveImage ==
    /\ result = Null
    /\ image # ""
    /\ image' = ""
    /\ UNCHANGED <<prompt, loading, result, error, envApiKey, callVars, harnessVars>>

\* A handler from setLoading(true); setError(null) to its await of
\* analyzeGeometryProblem, called without a user key.  When the call
\* throws before its first await, the handler's catch and finally run in
\* the same turn.
awaitAnalyze(kind) ==
    /\ analyzeStart(kind, "")
    /\ IF missingKey(apiKeyOf("", envApiKey))
       THEN /\ error' = messageOf(Error("", errCredential), kind)
            /\ loading' = FALSE
       ELSE /\ error' = "null"
            /\ loading' = TRUE
    /\ UNCHANGED <<prompt, image, result>>

\* handleSubmit with nothing to analyze: the validation message.
handleSubmitEmpty ==
    /\ result = Null
    /\ submitEnabled(loading)
    /\ prompt = "" /\ image = ""
    /\ error' = errNoInput
    /\ UNCHANGED <<prompt, image, loading, result, envApiKey, callVars, harnessVars>>

\* handleSubmit with a problem to analyze.
handleSubmit ==
    /\ result = Null
    /\ submitEnabled(loading)
    /\ ~(prompt = "" /\ image = "")
    /\ awaitAnalyze("submit")

\* handleRefine, reached from the result view with a feedback text that is
\* not blank.  Nothing in the handler or on its button looks at loading.
handleRefine(feedback) ==
    /\ result # Null
    /\ feedback # ""
    /\ awaitAnalyze("refine")

\* handleReset, from the header or from the result view.  It looks at no
\* call and cancels none: the calls outstanding go on, each with its
\* handler still awaiting it.
handleReset ==
    /\ result' = Null
    /\ prompt' = ""
    /\ image' = ""
    /\ error' = "null"
    /\ calls' = [c \in 1..MaxCalls |->
                    IF calls[c] = Idle THEN Idle ELSE [calls[c] EXCEPT !.outlived = TRUE]]
    /\ UNCHANGED <<loading, envApiKey, inflight, last, started, harnessVars>>

\* A catch block that clears the result on display.
resultClearedOnError(prev) == Null

\* The result on display after a handler's catch and finally blocks: they
\* call setError and setLoading only.
resultOnError(prev) == prev

\* A handler whose setLoading(false) sits at the end of its try block
\* instead of in a finally block.
respondBusyOnError(r, res) ==
    /\ analyzeResume(r, res)
    /\ CASE stepOutcome(IndexOf(r.model), res) = "next" ->
              UNCHANGED <<result, error, loading>>
         [] stepOutcome(IndexOf(r.model), res) = "return" ->
              /\ result' = res.data
              /\ loading' = FALSE
              /\ UNCHANGED error
         [] stepOutcome(IndexOf(r.model), res) = "throw" ->
              /\ error' = messageOf(last'.thrown, calls[r.call].kind)
              /\ result' = resultOnError(result)
              /\ UNCHANGED loading
    /\ UNCHANGED <<prompt, image>>

\* The response to request r arrives: analyzeGeometryProblem resumes, and
\* when it returns or throws, so does the handler awaiting it (setResult
\* or setError, then setLoading(false)).
respond(r, res) ==
    /\ analyzeResume(r, res)
    /\ CASE stepOutcome(IndexOf(r.model), res) = "next" ->
              UNCHANGED <<result, error, loading>>
         [] stepOutcome(IndexOf(r.model), res) = "return" ->
              /\ result' = res.data
              /\ loading' = FALSE
              /\ UNCHANGED error
         [] stepOutcome(IndexOf(r.model), res) = "throw" ->
              /\ error' = messageOf(last'.thrown, calls[r.call].kind)
              /\ loading' = FALSE
              /\ result' = resultOnError(result)
    /\ UNCHANGED <<prompt, image>>

Next ==
    \/ \E text \in {"", "Cho tam giac ABC"} : setPrompt(text)
    \/ handleImageUpload
    \/ handleRemoveImage
    \/ handleSubmitEmpty
    \/ handleSubmit
    \/ \E feedback \in {"Dung dien tich"} : handleRefine(feedback)
    \/ handleReset
    \/ \E r \in inflight, res \in AppResponses : respond(r, res)

Spec == Init /\ [][Next]_vars

\* The App when every backend call returns: the response to the request a
\* running call has in flight arrives, sooner or later, as an answer or as
\* a failure.
FairSpec ==
    Spec /\ \A c \in 1..MaxCalls :
               WF_vars(\E r \in inflight, res \in AppResponses : r.call = c /\ respond(r, res))

\* --------------------------------- analyzeGeometryProblem called directly

\* A call of analyzeGeometryProblem(text, image, feedback, userApiKey) from
\* outside the App, made when no other call is running.
analyzeCall(userApiKey) ==
    /\ Running = {}
    /\ analyzeStart("direct", userApiKey)
    /\ UNCHANGED appVars

\* The backend answers request r of such a call.
backendAnswers(r, res) ==
    /\ analyzeResume(r, res)
    /\ UNCHANGED appVars

AnalyzeNext ==
    \/ \E userApiKey \in {"", "user-key"} : analyzeCall(userApiKey)
    \/ \E r \in inflight, res \in Responses : backendAnswers(r, res)

AnalyzeSpec == Init /\ [][AnalyzeNext]_vars

\* ------------------------------------------- sanitizeLogicNode on its own

SkipUndefined(p) == p.v # Undefined
\* An object as JSON.parse builds it: a property left out has no entry.
Parsed(props) == Obj(SelectSeq(props, SkipUndefined))

IdInputs ==
    {Undefined, Str(Sample.a), Num(5), Obj(<<P(Key.text, Num(5))>>), Arr(<<Str(Sample.a), Null>>)}
TypeInputs ==
    {Undefined, Str(Sample.leaf), Str(ROOT), Obj(<<P(Key.toString, Num(1))>>)}
ChildrenInputs ==
    {Undefined, Str(Sample.a), Arr(<<>>), Arr(<<Null>>),
     Arr(<<Obj(<<P(Key.id, Str(Sample.a)), P(Key.type, Str(Sample.root))>>), Obj(<<>>)>>)}

\* The JSON values sanitizeLogicNode is given: the values that are no
\* objects, and the objects built from the inputs above, the children
\* under "children" or under the alias "nodes".
NodeInputs ==
    {Null, Bool(TRUE), Num(5), Str(Sample.a), Arr(<<>>)}
    \cup {Parsed(<<P(Key.id, id), P(Key.type, type), P(key, kids)>>) :
             id \in IdInputs, type \in TypeInputs,
             kids \in ChildrenInputs, key \in {Key.children, Key.nodes}}

NodeInit ==
    /\ envApiKey = ""
    /\ given \in NodeInputs
    /\ cleaned = NotCalled
    /\ AtRest({"app", "diagram", "view", "text"})

\* sanitizeLogicNode on the given value, under the random stream rand.
sanitize(rand) ==
    /\ cleaned = NotCalled
    /\ cleaned' = sanitizeLogicNode(given, rand, 1).v
    /\ UNCHANGED <<appVars, envApiKey, callVars, given, diagramVars, viewVars, textVars>>

\* sanitizeLogicNode applied to the node it returned.
sanitizeAgain(rand) ==
    /\ cleaned \notin {NotCalled, Throw}
    /\ given' = cleaned
    /\ cleaned' = sanitizeLogicNode(cleaned, rand, 1).v
    /\ UNCHANGED <<appVars, envApiKey, callVars, diagramVars, viewVars, textVars>>

NodeNext ==
    \/ \E rand \in RandomStreams : sanitize(rand)
    \/ \E rand \in RandomStreams : sanitizeAgain(rand)

NodeSpec == NodeInit /\ [][NodeNext]_vars

\* --------------------------------------- generateMermaidSource on its own

\* The values parsed for the trees that are drawn: a lone root, the
\* two-level tree of the end-to-end scenario, the tree of the prompt's
\* sample, a root with a long statement, markup, a long method and a null
\* child, a statement and a method with a numeric text, and a tree whose
\* ids are all left out.
DiagramInputs ==
    {Obj(<<P(Key.id, Str(Sample.a)), P(Key.type, Str(Sample.root)),
           P(Key.statement, Str(Sample.stmt))>>),
     Obj(<<P(Key.id, Str(Sample.r1)), P(Key.type, Str(Sample.root)),
           P(Key.statement, Str(<<"\\", "w", "i", "d", "e", "h", "a", "t", "{", "A", "B", "C", "}", " ", "=", " ", "9", "0", "^", "{", "c", "i", "r", "c", "}">>)),
           P(Key.method, Str(<<"P", "y", "t", "a", "g", "o">>)),
           P(Key.children, Arr(<<Obj(<<P(Key.id, Str(Sample.n1)), P(Key.type, Str(Sample.leaf)),
                                       P(Key.statement, Str(<<"$", "\\", "t", "r", "i", "a", "n", "g", "l", "e", " ", "A", "B", "C", "$">>))>>)>>))>>),
     Get(Get(DocWellFormed, Key.branches).a[1], Key.root),
     Obj(<<P(Key.id, Str(Sample.r1)),
           P(Key.statement, Str(<<"T", "a", "m", " ", "g", "i", "a", "c", " ", "A", "B", "C", " ", "c", "a", "n", " ", "t", "a", "i", " ", "A", "<", "b", "r", "/", ">", "n", "e", "n", " ", "\"", "A", "B", " ", "=", " ", "A", "C", "\"">>)),
           P(Key.method, Str(<<"D", "i", "n", "h", " ", "l", "y", " ", "v", "e", " ", "t", "a", "m", " ", "g", "i", "a", "c", " ", "c", "a", "n", " ", "v", "a", " ", "d", "u", "o", "n", "g", " ", "t", "r", "u", "n", "g", " ", "t", "u", "y", "e", "n">>)),
           P(Key.children, Arr(<<Null>>))>>),
     Obj(<<P(Key.id, Str(Sample.a)), P(Key.statement, Obj(<<P(Key.text, Num(5))>>))>>),
     Obj(<<P(Key.id, Str(Sample.a)), P(Key.statement, Str(Sample.stmt)),
           P(Key.method, Obj(<<P(Key.text, Num(5))>>)),
           P(Key.children, Arr(<<Obj(<<P(Key.id, Str(Sample.n1))>>)>>))>>),
     Obj(<<P(Key.nodes, Arr(<<Obj(<<>>), Obj(<<>>)>>))>>)}

\* The trees sanitizeLogicNode makes of them.
DiagramTrees ==
    {sanitizeLogicNode(v, rand, 1).v : v \in DiagramInputs, rand \in RandomStreams} \ {Throw}

\* The props of MermaidDiagram besides data.
Options ==
    [showTheory : BOOLEAN, theme : {"default", "warm", "minimal"},
     showAnalysisArrows : BOOLEAN, showProofArrows : BOOLEAN]

DiagramInit ==
    /\ envApiKey = ""
    /\ data \in DiagramTrees
    /\ options \in Options
    /\ compiled = NotCalled
    /\ pending = <<>>
    /\ canvas = [svgContent |-> "", renderError |-> "null"]
    /\ AtRest({"app", "node", "view", "text"})

\* The effect of MermaidDiagram runs renderDiagram under the props it has,
\* up to its await: setRenderError(null), the compile, and the call of
\* mermaid.render, whose promise is then pending; when the compile throws,
\* the catch block runs at once.  An SVG and an error are kept by where
\* they come from: "current" for a render started under the props the
\* component has now, "earlier" for one started under props it had before.
renderDiagram(rand) ==
    /\ compiled = NotCalled
    /\ compiled' = generateMermaidSource(data, options, rand)
    /\ IF compiled'.threw
       THEN /\ canvas' = [svgContent |-> "", renderError |-> "current"]
            /\ UNCHANGED pending
       ELSE /\ canvas' = [canvas EXCEPT !.renderError = "null"]
            /\ pending' = Append(pending, "current")
    /\ UNCHANGED <<appVars, envApiKey, callVars, nodeVars, data, options, viewVars, textVars>>

\* The parent renders MermaidDiagram with other props: the effect is due
\* again.  Nothing is done about the renders that are pending; what they
\* give, and what is on display, now comes from earlier props.
setOptions(opts) ==
    /\ compiled # NotCalled
    /\ Len(pending) < MaxPending
    /\ opts # options
    /\ options' = opts
    /\ compiled' = NotCalled
    /\ LET Earlier(from) == IF from = "current" THEN "earlier" ELSE from
       IN /\ pending' = [i \in DOMAIN pending |-> Earlier(pending[i])]
          /\ canvas' = [svgContent |-> Earlier(canvas.svgContent),
                       renderError |-> Earlier(canvas.renderError)]
    /\ UNCHANGED <<appVars, envApiKey, callVars, nodeVars, data, viewVars, textVars>>

\* The promise of the i-th pending mermaid.render settles, in whatever
\* order the library gets to it, and renderDiagram resumes on a mounted
\* component: setSvgContent(svg) when it resolved, the catch block when
\* it rejected.
rendered(i, ok) ==
    /\ i \in DOMAIN pending
    /\ pending' = SubSeq(pending, 1, i - 1) \o SubSeq(pending, i + 1, Len(pending))
    /\ canvas' = IF ok THEN [canvas EXCEPT !.svgContent = pending[i]]
                ELSE [svgContent |-> "", renderError |-> pending[i]]
    /\ UNCHANGED <<appVars, envApiKey, callVars, nodeVars, data, options, compiled,
                   viewVars, textVars>>

DiagramNext ==
    \/ \E rand \in RandomStreams : renderDiagram(rand)
    \/ \E opts \in Options : setOptions(opts)
    \/ \E i \in DOMAIN pending, ok \in BOOLEAN : rendered(i, ok)

DiagramSpec == DiagramInit /\ [][DiagramNext]_vars

\* ------------------------------- ResultDisplay and the InteractiveMindMap

\* activeBranch: the first branch whose id is the chosen one, 0 for null.
activeBranch(v) ==
    LET branches == Get(result, Key.branches).a
        found == {i \in 1..Len(branches) : Get(branches[i], Key.id) = v.selectedBranchId}
    IN IF found = {} THEN 0 ELSE CHOOSE i \in found : \A j \in found : i <= j

\* The LogicNode at a place of the response: the root of branch b, then
\* the children picked by the indices of path.
RECURSIVE NodeAt(_, _)
NodeAt(b, path) ==
    IF path = <<>> THEN Get(Get(result, Key.branches).a[b], Key.root)
    ELSE Get(NodeAt(b, SubSeq(path, 1, Len(path) - 1)), Key.children).a[path[Len(path)]]

\* NodeItem: node.children && node.children.length > 0.
hasChildren(node) ==
    LET children == Get(node, Key.children)
    IN children.t = "array" /\ Len(children.a) > 0

\* NodeItem: selectedNodeId === node.id, for the NodeItem at path under
\* the state v of ResultDisplay, which passes selectedNode?.id.
isSelected(v, path) ==
    LET selectedNodeId ==
            IF v.selectedNode = Null THEN Undefined
            ELSE Get(NodeAt(v.selectedNode.branch, v.selectedNode.path), Key.id)
    IN selectedNodeId = Get(NodeAt(activeBranch(v), path), Key.id)

\* A map mounted without the effect that expands the root.
mountCollapsed(b) == [path \in {<<>>} |-> FALSE]
\* The NodeItems of a freshly mounted map of branch b: every NodeItem
\* starts with useState(false), the effect of the root sets it expanded,
\* and the children of the root are mounted under it, collapsed.
mountMap(b) ==
    LET children == IF hasChildren(NodeAt(b, <<>>))
                    THEN {<<i>> : i \in 1..Len(Get(NodeAt(b, <<>>), Key.children).a)}
                    ELSE {}
    IN [path \in {<<>>} \cup children |-> path = <<>>]

\* A click that flips the flag of a node without children too.
flipAlways(exp, node, path) == [exp EXCEPT ![path] = ~exp[path]]
\* handleClick on the NodeItem at path, if (hasChildren) setExpanded(!expanded),
\* and the render that follows: the ChildrenContainer is rendered only
\* under an expanded node, so expanding mounts the children, collapsed,
\* and collapsing unmounts every NodeItem below.
flip(exp, node, path) ==
    LET below(q) == Len(q) > Len(path) /\ SubSeq(q, 1, Len(path)) = path
        children == {Append(path, i) : i \in 1..Len(Get(node, Key.children).a)}
    IN IF ~hasChildren(node) THEN exp
       ELSE IF exp[path]
       THEN [q \in {x \in DOMAIN exp : ~below(x)} |-> IF q = path THEN FALSE ELSE exp[q]]
       ELSE [q \in DOMAIN exp \cup children |->
                IF q = path THEN TRUE ELSE IF q \in children THEN FALSE ELSE exp[q]]

\* The state ResultDisplay settles in after its state became v2: the
\* effect on [activeBranch] (lines 52-57) selects the root of a branch that
\* became the active one and shows the analysis tab.
Settled(v2) ==
    LET b == activeBranch(v2)
    IN IF b # 0 /\ b # activeBranch(view)
       THEN [v2 EXCEPT !.selectedNode = [branch |-> b, path |-> <<>>],
                       !.activeTab = "analysis"]
       ELSE v2

\* The NodeItems after ResultDisplay rendered under the state v2 (lines
\* 124, 258, 300-307): the map is there in the detail view, on the analysis
\* tab, in the interactive mode; it keeps its NodeItems while its key
\* (activeBranch.id + theme + showAnalysisArrows) stays, and is mounted
\* anew otherwise.  Without a map there is no NodeItem.
Rendered(v2) ==
    LET shown(v) == activeBranch(v) # 0 /\ v.activeTab = "analysis" /\ v.viewMode = "interactive"
        key(v) == <<v.selectedBranchId, v.theme, v.showAnalysisArrows>>
    IN IF ~shown(v2) THEN <<>>
       ELSE IF shown(view) /\ key(view) = key(v2) THEN expanded
       ELSE mountMap(activeBranch(v2))

\* ResultDisplay is mounted with a response the pipeline returned.
ViewInit ==
    /\ envApiKey = ""
    /\ result \in {r.data : r \in {x \in Responses : x.ok}}
    /\ prompt = ""
    /\ image = ""
    /\ loading = FALSE
    /\ error = "null"
    /\ calls = [c \in 1..MaxCalls |-> Idle]
    /\ inflight = {}
    /\ last = Completed(Idle, "none", NoError, 0, Undefined)
    /\ started = 0
    /\ AtRest({"node", "diagram", "view", "text"})

\* A click on the card of branch i in the selection view (line 172), and
\* the effects that follow.
chooseBranch(i) ==
    /\ activeBranch(view) = 0
    /\ i \in 1..Len(Get(result, Key.branches).a)
    /\ view' = Settled([view EXCEPT !.selectedBranchId = Get(Get(result, Key.branches).a[i], Key.id)])
    /\ expanded' = Rendered(view')
    /\ UNCHANGED <<appVars, envApiKey, callVars, nodeVars, diagramVars, textVars>>

\* The back button of the detail view (line 219).
backToList ==
    /\ activeBranch(view) # 0
    /\ view' = Settled([view EXCEPT !.selectedBranchId = Null])
    /\ expanded' = Rendered(view')
    /\ UNCHANGED <<appVars, envApiKey, callVars, nodeVars, diagramVars, textVars>>

\* A control of the detail view sets a piece of state to another value:
\* the tabs (lines 244, 250), and on the analysis tab the view modes
\* (264-270), the theme (286) and, in the interactive mode, the direction
\* (278, 281).
setControl(field, value) ==
    /\ activeBranch(view) # 0
    /\ \/ field = "activeTab" /\ value \in {"analysis", "proof"}
       \/ /\ view.activeTab = "analysis"
          /\ \/ field = "viewMode" /\ value \in {"interactive", "static", "list"}
             \/ field = "theme" /\ value \in {"default", "warm", "minimal"}
             \/ /\ field = "showAnalysisArrows"
                /\ value \in BOOLEAN
                /\ view.viewMode = "interactive"
    /\ view[field] # value
    /\ view' = Settled([view EXCEPT ![field] = value])
    /\ expanded' = Rendered(view')
    /\ UNCHANGED <<appVars, envApiKey, callVars, nodeVars, diagramVars, textVars>>

\* handleClick of the NodeItem at path (part_001 lines 74-83):
\* onNodeSelect(node), then the flip.
handleClick(path) ==
    /\ path \in DOMAIN expanded
    /\ view' = [view EXCEPT !.selectedNode = [branch |-> activeBranch(view), path |-> path]]
    /\ expanded' = flip(expanded, NodeAt(activeBranch(view), path), path)
    /\ UNCHANGED <<appVars, envApiKey, callVars, nodeVars, diagramVars, textVars>>

\* The close button of the tutor sheet (line 82): setSelectedNode(null).
closeTutor ==
    /\ DOMAIN expanded # {}
    /\ view.selectedNode # Null
    /\ view' = [view EXCEPT !.selectedNode = Null]
    /\ UNCHANGED <<appVars, envApiKey, callVars, nodeVars, diagramVars, textVars, expanded>>

ViewNext ==
    \/ \E i \in DOMAIN Get(result, Key.branches).a : chooseBranch(i)
    \/ backToList
    \/ \E field \in {"activeTab", "viewMode", "theme"},
          value \in {"analysis", "proof", "interactive", "static", "list",
                     "default", "warm", "minimal"} : setControl(field, value)
    \/ \E value \in BOOLEAN : setControl("showAnalysisArrows", value)
    \/ \E path \in DOMAIN expanded : handleClick(path)
    \/ closeTutor

ViewSpec == ViewInit /\ [][ViewNext]_vars

\* ------------------------------------------ the text functions on their own

\* The strings the text functions are given.
\*   raw:    a JSON object, bare or in a code fence, with and without
\*           commentary before and after it; each with the object it holds
\*   latex:  up to four pieces of angle and degree notation, and
\*           expressions that are canonical already
\*   mixed:  up to four pieces of text, delimiters, bold marks and line
\*           breaks
\*   escaped: objects with backslashes in them: escapes that are valid,
\*           escapes that the repair makes valid, and texts that do not
\*           parse after the repair either
TextInputs ==
    LET Words(w) == {a \o b \o c \o d : a \in w \cup {<<>>}, b \in w \cup {<<>>},
                                         c \in w \cup {<<>>}, d \in w \cup {<<>>}}
        fence == <<Glyph.backtick, Glyph.backtick, Glyph.backtick>>
        Wrapped(object, fenced) ==
            IF fenced THEN fence \o <<"j", "s", "o", "n", "\n">> \o object \o <<"\n">> \o fence ELSE object
    IN [raw |-> {[text |-> before \o Wrapped(object, fenced) \o after, object |-> object] :
                    before \in {<<>>, <<"H", "e", "r", "e", " ", "i", "s", " ", "t", "h", "e", " ", "r", "e", "s", "u", "l", "t", ":", "\n">>},
                    object \in {<<"{", "\"", "a", "\"", ":", "1", "}">>, <<"{", "\"", "a", "\"", ":", "{", "\"", "b", "\"", ":", "2", "}", ",", "\"", "c", "\"", ":", "\"", "\\", "\\", "w", "i", "d", "e", "h", "a", "t", "{", "A", "}", "\"", "}">>,
                                <<"{", "\"", "a", "\"", ":", "\"", "x", "}", "\"", "}">>, <<"{", "\"", "a", "\"", ":", "\"", "{", "x", "\"", "}">>},
                    fenced \in BOOLEAN,
                    after \in {<<>>, <<"\n", "T", "h", "a", "n", "k", "s", "!">>}},
        canonical |-> {<<"\\", "w", "i", "d", "e", "h", "a", "t", "{", "A", "B", "C", "}">>, <<"9", "0", "^", "\\", "c", "i", "r", "c">>, <<"\\", "w", "i", "d", "e", "h", "a", "t", "{", "A", "B", "C", "}", " ", "=", " ", "9", "0", "^", "\\", "c", "i", "r", "c">>},
        latex |-> Words({<<"\\", "a", "n", "g", "l", "e">>, <<"\\", "h", "a", "t">>, <<"\\", "w", "i", "d", "e", "h", "a", "t">>, <<"{">>, <<"}">>, <<" ">>, <<"A">>, <<"9">>, <<"^", "o">>})
                    \cup {<<"\\", "w", "i", "d", "e", "h", "a", "t", "{", "A", "B", "C", "}">>, <<"9", "0", "^", "\\", "c", "i", "r", "c">>, <<"\\", "w", "i", "d", "e", "h", "a", "t", "{", "A", "B", "C", "}", " ", "=", " ", "9", "0", "^", "\\", "c", "i", "r", "c">>},
        escaped |-> {<<"{", "\"", "a", "\"", ":", "\"", "\\", "w", "i", "d", "e", "h", "a", "t", "{", "A", "}", "\"", "}">>, <<"{", "\"", "a", "\"", ":", "\"", "\\", "\\", "w", "i", "d", "e", "h", "a", "t", "{", "A", "}", "\"", "}">>,
                     <<"{", "\"", "a", "\"", ":", "\"", "\\", "n", "9", "\"", ",", "\"", "b", "\"", ":", "{", "}", "}">>, <<"{", "\"", "a", "\"", ":", "\"", "\\", "u", "0", "0", "e", "9", "\\", "u", "1", "2", "\"", "}">>,
                     <<"{", "\"", "a", "\"", ":", "\"", "\\", "w", "\"", ",", "}">>, <<"{", "\"", "a", "\"", ":", "\\", "w", "}">>, <<"{", "\"", "a", "\"", ":", "\"", "\\", "w", "\"", ",", "\"", "b", "\"", ":", "\"", "\\", "\"", ",", "}">>,
                     <<"{", "\"", "a", "\"", ":", "\"", "\\", "a", "n", "g", "l", "e", " ", "A", "\"", "}", "\n", "T", "h", "a", "n", "k", "s", "!">>},
        mixed |-> Words({<<"$">>, <<"\\", "(">>, <<"\\", ")">>, <<"*", "*">>, <<"a">>, <<"=">>, <<" ">>, <<"\n">>})]

TextInit ==
    /\ envApiKey = ""
    /\ input \in {r.text : r \in TextInputs.raw} \cup TextInputs.escaped
                   \cup TextInputs.latex \cup TextInputs.mixed
    /\ output = NotCalled
    /\ AtRest({"app", "node", "diagram", "view"})

\* One of the text functions is called with the input: extractJson with a
\* response text, the parse of a candidate with one, normalizeLatex with a math source, MathDisplay, in
\* inline or in block mode, with a text to show.  prior holds the value
\* that a second call was given, once there was one.
invoke(fn, block) ==
    /\ output = NotCalled
    /\ \/ /\ fn = "extractJson"
          /\ ~block
          /\ input \in {r.text : r \in TextInputs.raw}
          /\ output' = [fn |-> fn, block |-> block, value |-> extractJson(input), prior |-> <<>>]
       \/ /\ fn = "parseResponse"
          /\ ~block
          /\ input \in {r.text : r \in TextInputs.raw} \cup TextInputs.escaped
          /\ output' = [fn |-> fn, block |-> block, value |-> parseResponse(input), prior |-> <<>>]
       \/ /\ fn = "normalizeLatex"
          /\ ~block
          /\ input \in TextInputs.latex
          /\ output' = [fn |-> fn, block |-> block, value |-> normalizeLatex(input), prior |-> <<>>]
       \/ /\ fn = "MathDisplay"
          /\ input \in TextInputs.mixed
          /\ output' = [fn |-> fn, block |-> block, value |-> MathDisplay(input, block), prior |-> <<>>]
    /\ UNCHANGED <<appVars, envApiKey, callVars, nodeVars, diagramVars, viewVars, input>>

\* normalizeLatex applied to the string it returned.
normalizeAgain ==
    /\ output # NotCalled
    /\ output.fn = "normalizeLatex"
    /\ output.prior = <<>>
    /\ output' = [output EXCEPT !.value = normalizeLatex(output.value), !.prior = <<output.value>>]
    /\ UNCHANGED <<appVars, envApiKey, callVars, nodeVars, diagramVars, viewVars, input>>

TextNext ==
    \/ \E fn \in {"extractJson", "parseResponse", "normalizeLatex", "MathDisplay"}, block \in BOOLEAN : invoke(fn, block)
    \/ normalizeAgain

TextSpec == TextInit /\ [][TextNext]_vars

\* ------------------------------------------------------------ properties

IsPrefix(s, t) == Len(s) <= Len(t) /\ \A i \in 1..Len(s) : s[i] = t[i]
AllFailed(oks) == \A i \in 1..Len(oks) : ~oks[i]
RequestsOf(c) == {r \in inflight : r.call = c}
Latest(call) == call.attempts[Len(call.attempts)]

\* A running call has asked its candidates in the declared order, has seen
\* every attempt but the latest fail, and awaits the one request it made
\* for the latest.
OneAtATime(c) ==
    /\ calls[c].attempts # <<>>
    /\ IsPrefix(calls[c].attempts, FALLBACK_MODELS)
    /\ Len(calls[c].oks) = Len(calls[c].attempts) - 1
    /\ AllFailed(calls[c].oks)
    /\ Cardinality(RequestsOf(c)) = 1
    /\ \A r \in RequestsOf(c) : r.model = Latest(calls[c])

BranchesOf(ret) == Get(ret, Key.branches).a
RootOf(branch) == Get(branch, Key.root)

RECURSIVE NodesOf(_)
RECURSIVE NodesOfAll(_)
\* The nodes of a tree, the root first.
NodesOf(n) == <<n>> \o NodesOfAll(Get(n, Key.children).a)
NodesOfAll(a) == IF a = <<>> THEN <<>> ELSE NodesOf(a[1]) \o NodesOfAll(Tail(a))

IsNonEmptyString(val) == val.t = "string" /\ val.s # <<>>

RECURSIVE WellFormed(_)
\* A LogicNode as the types declare it, at every depth.
WellFormed(n) ==
    /\ n.t = "object"
    /\ IsNonEmptyString(Get(n, Key.id))
    /\ IsNonEmptyString(Get(n, Key.statement))
    /\ Get(n, Key.type) \in {Str(ROOT), Str(NODE), Str(LEAF)}
    /\ IsArray(Get(n, Key.children))
    /\ \A i \in 1..Len(Get(n, Key.children).a) : WellFormed(Get(n, Key.children).a[i])

\* Every node sanitizeLogicNode returns for one of the inputs.
SanitizerOutputs ==
    {sanitizeLogicNode(v, rand, 1).v : v \in NodeInputs, rand \in RandomStreams} \ {Throw}

\* C1: a call asks the candidates in the declared order, each at most
\* once and one at a time, and goes on only after a failure; the call that
\* returned stopped at its first success, with no request left in flight,
\* and returned what the pipeline makes of that candidate's document.
C1_FirstSuccessWins ==
    /\ \A c \in Running : OneAtATime(c)
    /\ \A r \in inflight : r.call \in Running
    /\ last.status = "returned" =>
          /\ IsPrefix(last.attempts, FALLBACK_MODELS)
          /\ last.oks = [i \in 1..Len(last.attempts) |-> i = Len(last.attempts)]
          /\ [ok |-> TRUE, data |-> last.ret, doc |-> last.doc] \in Responses

\* C1 (witness): a call returned on its third candidate.
C1_ThirdCandidateReturned ==
    /\ last.status = "returned"
    /\ Len(last.attempts) = Len(FALLBACK_MODELS)

\* C2: a call that tried its candidates and threw had tried all of them,
\* saw all of them fail, and threw the error of the last one; the generic
\* error stands in only where no error was recorded.
C2_LastErrorSurfaces ==
    /\ (last.status = "threw" /\ last.attempts # <<>>) =>
          /\ last.attempts = FALLBACK_MODELS
          /\ Len(last.oks) = Len(FALLBACK_MODELS)
          /\ AllFailed(last.oks)
          /\ last.thrown = last.errs[Len(last.errs)]
          /\ last.thrown.by = FALLBACK_MODELS[Len(FALLBACK_MODELS)]
    /\ (last.status = "threw" /\ last.thrown = Error("", errGeneric)) =>
          \A i \in 1..Len(last.errs) : last.errs[i] = NoError

\* C2 (witness): every candidate failed, the last one not as the first did.
C2_AllFailedDifferently ==
    /\ last.status = "threw"
    /\ Len(last.errs) = Len(FALLBACK_MODELS)
    /\ last.errs[1].msg # last.errs[Len(FALLBACK_MODELS)].msg

\* C3: sanitizeLogicNode returns, for every value, a node that is well
\* formed at every depth, and never throws.
C3_SanitizeTotal ==
    cleaned # NotCalled => (cleaned # Throw /\ WellFormed(cleaned))

\* C4: the root of every branch of a returned response has type ROOT.
C4_RootsAreRoot ==
    last.status = "returned" =>
        \A i \in 1..Len(BranchesOf(last.ret)) :
            Get(RootOf(BranchesOf(last.ret)[i]), Key.type) = Str(ROOT)

\* C4 (witness): a response was returned for a document whose root
\* declares itself a leaf, and for one whose branch has no root at all.
C4_DeclaredLeafReturned ==
    /\ last.status = "returned"
    /\ Docs[last.doc] \in {DocRootChild, DocBareBranches}

\* C5: in every tree of a returned response the root, and no other node,
\* has type ROOT.
C5_SingleRoot ==
    last.status = "returned" =>
        \A i \in 1..Len(BranchesOf(last.ret)) :
            \A j \in 1..Len(NodesOf(RootOf(BranchesOf(last.ret)[i]))) :
                (Get(NodesOf(RootOf(BranchesOf(last.ret)[i]))[j], Key.type) = Str(ROOT)) <=> (j = 1)

\* C6: in every tree of a returned response no two nodes have the same id.
C6_UniqueIds ==
    last.status = "returned" =>
        \A i \in 1..Len(BranchesOf(last.ret)) :
            \A j, l \in 1..Len(NodesOf(RootOf(BranchesOf(last.ret)[i]))) :
                j # l => Get(NodesOf(RootOf(BranchesOf(last.ret)[i]))[j], Key.id)
                         # Get(NodesOf(RootOf(BranchesOf(last.ret)[i]))[l], Key.id)

\* C7: a returned response has at least one branch; an attempt that ended
\* with no branches counts as failed, and the next candidate is asked.
C7_NeverEmpty ==
    /\ last.status = "returned" => Len(BranchesOf(last.ret)) >= 1
    /\ \A c \in Running : \A i \in 1..Len(calls[c].errs) :
          calls[c].errs[i].msg = errNoDiagram =>
              ~calls[c].oks[i] /\ Len(calls[c].attempts) > i
    /\ \A i \in 1..Len(last.errs) :
          last.errs[i].msg = errNoDiagram =>
              /\ ~last.oks[i]
              /\ i < Len(FALLBACK_MODELS) => Len(last.attempts) > i

\* C7 (witness): a candidate answered without branches and a later
\* candidate's response was returned.
C7_EmptyThenReturned ==
    /\ last.status = "returned"
    /\ \E i \in 1..Len(last.errs) : last.errs[i].msg = errNoDiagram

\* C8 (as claimed): at most one call is outstanding and at most one
\* request is in flight.
C8_OneRequestAtATime ==
    Cardinality(Running) <= 1 /\ Cardinality(inflight) <= 1

\* A step that starts a call from handleSubmit.
SubmitStarts ==
    \E c \in 1..MaxCalls :
        calls[c] = Idle /\ calls'[c] # Idle /\ calls'[c].kind = "submit"

\* C8 (amended): each outstanding call has exactly one request in flight,
\* for its latest candidate, issued after every earlier candidate of the
\* call was seen to fail; and a submit starts a call only while the busy
\* flag is clear.
C8_OneRequestPerCall ==
    /\ [](/\ \A c \in Running : OneAtATime(c)
          /\ \A r \in inflight : r.call \in Running)
    /\ [][SubmitStarts => ~loading]_vars

\* C8 (witness): two calls are outstanding at once.
C8_TwoCallsOutstanding ==
    Cardinality(Running) = 2 /\ Cardinality(inflight) = 2

\* C9: sanitizeLogicNode gives back, unchanged, a node it produced.
C9_SanitizeIdempotent ==
    (given \in SanitizerOutputs /\ cleaned # NotCalled) => cleaned = given

RefineFails ==
    \E c \in 1..MaxCalls :
        calls[c].kind = "refine" /\ calls'[c] = Idle /\ last'.status = "threw"

\* C11: when a refinement fails, the result on display, the prompt and
\* the picture stay as they were; the handler sets the error message and
\* clears the busy flag, nothing else.
C11_RefineFailureKeepsResult ==
    [][RefineFails => /\ result' = result
                      /\ prompt' = prompt
                      /\ image' = image
                      /\ error' = last'.thrown.msg
                      /\ ~loading']_vars

\* C11 (witness): a refinement has failed and its message is shown over
\* the result of the submit before it.
C11_RefineFailedOverResult ==
    /\ last.kind = "refine" /\ last.status = "threw"
    /\ result # Null
    /\ error = last.thrown.msg
    /\ ~loading


RECURSIVE PathsOf(_, _)
RECURSIVE PathsOfAll(_, _, _)
\* The positions of the nodes of a tree in the order a depth-first walk
\* meets them, each the list of child positions leading to it from path.
PathsOf(n, path) == <<path>> \o PathsOfAll(Get(n, Key.children).a, path, 1)
PathsOfAll(a, path, i) ==
    IF i > Len(a) THEN <<>>
    ELSE PathsOf(a[i], path \o <<i>>) \o PathsOfAll(a, path, i + 1)

\* The positions of the nodes of the tree on display that have a parent.
ChildPaths == Tail(PathsOf(data, <<>>))
ParentOf(path) == SubSeq(path, 1, Len(path) - 1)

\* C12: generateMermaidSource returns, whatever the tree the sanitizer
\* made and whatever the props.
C12_CompileTotal ==
    compiled # NotCalled => ~compiled.threw

\* C13: the compiled source declares each node of the tree once and has
\* one edge line for each node with a parent, between that parent and the
\* node; a lone root gives one declaration and no edge.
C13_NodeAndEdgeCounts ==
    compiled # NotCalled =>
        /\ ~compiled.threw
        /\ Len(compiled.nodes) = Len(NodesOf(data))
        /\ Len(compiled.edges) = Len(NodesOf(data)) - 1
        /\ \A k \in 1..Len(compiled.edges) :
              {compiled.edges[k].from, compiled.edges[k].to}
                  = {idOf(compiled, ParentOf(ChildPaths[k])), idOf(compiled, ChildPaths[k])}

\* C20: the layout is top-to-bottom with the proof arrows alone and
\* bottom-to-top otherwise, and the edge line of each node with a parent
\* is parent <--> child with both toggles on, parent --> child with the
\* analysis arrows alone, child --> parent with the proof arrows alone and
\* parent --- child with both off.
C20_EdgeDirection ==
    (compiled # NotCalled /\ ~compiled.threw) =>
        /\ compiled.dir = IF ~options.showAnalysisArrows /\ options.showProofArrows
                          THEN "TD" ELSE "BT"
        /\ Len(compiled.edges) = Len(ChildPaths)
        /\ \A k \in 1..Len(compiled.edges) :
              compiled.edges[k] =
                  CASE options.showAnalysisArrows /\ options.showProofArrows ->
                         [from |-> idOf(compiled, ParentOf(ChildPaths[k])), arrow |-> "<-->",
                          to |-> idOf(compiled, ChildPaths[k])]
                    [] options.showAnalysisArrows /\ ~options.showProofArrows ->
                         [from |-> idOf(compiled, ParentOf(ChildPaths[k])), arrow |-> "-->",
                          to |-> idOf(compiled, ChildPaths[k])]
                    [] ~options.showAnalysisArrows /\ options.showProofArrows ->
                         [from |-> idOf(compiled, ChildPaths[k]), arrow |-> "-->",
                          to |-> idOf(compiled, ParentOf(ChildPaths[k]))]
                    [] OTHER ->
                         [from |-> idOf(compiled, ParentOf(ChildPaths[k])), arrow |-> "---",
                          to |-> idOf(compiled, ChildPaths[k])]

\* C20 (witness): a tree of three levels was compiled with the proof
\* arrows alone.
C20_ProofOnlyCompiled ==
    /\ compiled # NotCalled /\ ~compiled.threw
    /\ ~options.showAnalysisArrows /\ options.showProofArrows
    /\ Len(compiled.edges) = 3
    /\ \E k \in 1..Len(ChildPaths) : Len(ChildPaths[k]) = 2

\* A branch becomes the active one in this step.
BranchOpens == activeBranch(view) = 0 /\ activeBranch(view') # 0

\* The map that is mounted after this step has its root expanded and
\* every other NodeItem collapsed.
FreshMapAfter ==
    /\ expanded'[<<>>]
    /\ \A q \in DOMAIN expanded' \ {<<>>} : ~expanded'[q]

\* C14 (as stated): when a branch is opened and its interactive map is
\* presented for the first time, the root node is expanded, every other
\* node is collapsed, and no node is selected.
C14_FreshMapNothingSelected ==
    [][(BranchOpens /\ DOMAIN expanded' # {}) =>
           (FreshMapAfter /\ view'.selectedNode = Null)]_vars

\* C14 (amended): whenever the interactive map is mounted its root node is
\* expanded and every other node is collapsed, and the root of the branch
\* is the selected node: opening a branch selects its root, and the
\* selection changes only when a branch is opened or while the map is
\* mounted, so it is still the root when the map is first presented.
C14_FreshMapRootSelected ==
    [][/\ (DOMAIN expanded = {} /\ DOMAIN expanded' # {}) => FreshMapAfter
       /\ BranchOpens => view'.selectedNode = [branch |-> activeBranch(view'), path |-> <<>>]
       /\ view'.selectedNode # view.selectedNode => (BranchOpens \/ DOMAIN expanded # {})]_vars

\* C14 (witness): a map is mounted over a tree of three levels, with the
\* root expanded, its children collapsed and the root selected.
C14_RootSelectedOnFreshMap ==
    /\ DOMAIN expanded # {}
    /\ expanded[<<>>]
    /\ \E q \in DOMAIN expanded : Len(q) = 1 /\ hasChildren(NodeAt(activeBranch(view), q))
    /\ \A q \in DOMAIN expanded \ {<<>>} : ~expanded[q]
    /\ view.selectedNode = [branch |-> activeBranch(view), path |-> <<>>]

\* C15: at most one NodeItem of the mounted map is shown as selected.
C15_OneNodeShownSelected ==
    Cardinality({q \in DOMAIN expanded : isSelected(view, q)}) <= 1

\* C19: a click on a node with children flips its expanded flag, a click
\* on a node without children leaves the flag as it was, and in both cases
\* the clicked node becomes the selected node.
C19_ClickFlipsAndSelects ==
    [][\A path \in DOMAIN expanded :
          handleClick(path) =>
              /\ expanded'[path] = IF hasChildren(NodeAt(activeBranch(view), path))
                                   THEN ~expanded[path] ELSE expanded[path]
              /\ view'.selectedNode = [branch |-> activeBranch(view), path |-> path]]_vars

\* C19 (witness): a node below the root was clicked open and is the
\* selected one.
C19_InnerNodeClickedOpen ==
    \E path \in DOMAIN expanded :
        /\ Len(path) >= 1
        /\ expanded[path]
        /\ view.selectedNode = [branch |-> activeBranch(view), path |-> path]

\* C16: for a response text that holds one JSON object, bare or in a code
\* fence, with or without commentary before and after it, extractJson
\* returns exactly the text of that object.
C16_ExtractsTheObject ==
    (output # NotCalled /\ output.fn = "extractJson") =>
        \A r \in TextInputs.raw : r.text = input => output.value = r.object

RECURSIVE Joined(_, _)
\* The strings of a sequence one after the other, with sep between them.
Joined(strings, sep) ==
    IF strings = <<>> THEN <<>>
    ELSE IF Len(strings) = 1 THEN strings[1]
    ELSE strings[1] \o sep \o Joined(Tail(strings), sep)

\* The source text of a row of segments.
SourceOf(row) == Joined([k \in 1..Len(row.parts) |-> row.parts[k].src], <<>>)

\* C17 (as stated): the source texts of the segments, in order, make up
\* the input exactly, in inline mode and, the rows standing for the lines,
\* in block mode.
C17_SegmentsCoverInput ==
    (output # NotCalled /\ output.fn = "MathDisplay") =>
        Joined([k \in 1..Len(output.value) |-> SourceOf(output.value[k])], <<"\n">>) = input

\* C17 (amended): in inline mode the source texts of the segments, in
\* order, make up the input exactly; in block mode there is a row for each
\* line of the input, a spacer for a line of white space only, and else the
\* segments whose source texts make up the line without the white space
\* at its ends.
C17_SegmentsCoverTrimmedLines ==
    (output # NotCalled /\ output.fn = "MathDisplay") =>
        IF ~output.block
        THEN Joined([k \in 1..Len(output.value) |-> SourceOf(output.value[k])], <<>>) = input
        ELSE input # <<>> =>
               /\ Len(output.value) = Len(Split(input, "\n"))
               /\ \A k \in 1..Len(output.value) :
                     /\ output.value[k].spacer = (Trim(Split(input, "\n")[k]) = <<>>)
                     /\ SourceOf(output.value[k]) = Trim(Split(input, "\n")[k])

\* C17 (witness): in block mode a text of a blank line and an indented
\* line with inline math was made into a spacer and a row with the math.
C17_BlockWithSpacerAndMath ==
    /\ output # NotCalled /\ output.fn = "MathDisplay" /\ output.block
    /\ Len(output.value) = 2
    /\ output.value[1].spacer
    /\ \E k \in 1..Len(output.value[2].parts) : output.value[2].parts[k].kind = "inline"
    /\ SourceOf(output.value[2]) # Split(input, "\n")[2]

\* C18: normalizing what normalizeLatex returned changes nothing, and an
\* expression that is canonical already is returned as it is.
C18_NormalizeIdempotent ==
    (output # NotCalled /\ output.fn = "normalizeLatex") =>
        /\ output.prior # <<>> => output.value = output.prior[1]
        /\ input \in TextInputs.canonical => output.value = input

\* C18 (witness): a source that normalizeLatex rewrote, angle and degree
\* both, was normalized a second time.
C18_RewrittenThenNormalizedAgain ==
    /\ output # NotCalled /\ output.fn = "normalizeLatex"
    /\ output.prior # <<>>
    /\ output.prior[1] # input
    /\ \E i \in 1..Len(input) : input[i] = "^"
    /\ \E i \in 1..Len(input) : input[i] = " "

\* C22: the coercion of a node's id gives a value of string type: the
\* string itself, the digits of a number, the coerced elements of a
\* sequence joined by line breaks, the text of an object.
C22_CoercionGivesString ==
    (cleaned \notin {NotCalled, Throw} /\ given.t = "object") =>
        LET id == Get(given, Key.id)
            coerced == Get(cleaned, Key.id)
        IN /\ coerced.t = "string"
           /\ (id.t = "string" /\ id.s # <<>>) => coerced = id
           /\ id.t = "number" => coerced = Str(NumToString(id.n))

\* C23: the extracted text is parsed first; only when that fails is it
\* repaired, once, and the repaired text parsed, once; when that fails too
\* the candidate fails with a JSON syntax error that carries the failure of
\* the first parse.
C23_ParseThenRepairOnce ==
    (output # NotCalled /\ output.fn = "parseResponse") =>
        LET first == extractJson(input)
            tried == output.value.tried
        IN /\ tried[1] = first
           /\ JSONparse(first).ok =>
                 /\ tried = <<first>>
                 /\ output.value.parsed = <<first>>
                 /\ output.value.thrown = <<>>
           /\ ~JSONparse(first).ok =>
                 /\ tried = <<first, repairJsonString(first)>>
                 /\ IF JSONparse(tried[2]).ok
                    THEN output.value.parsed = <<tried[2]>> /\ output.value.thrown = <<>>
                    ELSE /\ output.value.parsed = <<>>
                         /\ output.value.thrown =
                                <<[name |-> "JSON Syntax Error", at |-> JSONparse(first).at]>>

\* C23 (witness): a text failed to parse, was repaired, and failed again
\* at another place.
C23_FailedTwiceApart ==
    /\ output # NotCalled /\ output.fn = "parseResponse"
    /\ output.value.thrown # <<>>
    /\ output.value.tried[2] # output.value.tried[1]
    /\ JSONparse(output.value.tried[2]).at # output.value.thrown[1].at

\* C24: a math segment is made of a delimited expression, the opening
\* delimiter with its closing partner, or of a text that holds no
\* delimiter: a delimiter without its partner is in a text segment.
C24_LoneDelimiterIsText ==
    (output # NotCalled /\ output.fn = "MathDisplay") =>
        \A r \in 1..Len(output.value) : \A k \in 1..Len(output.value[r].parts) :
            LET seg == output.value[r].parts[k]
                Between(open, close) ==
                    /\ Len(seg.src) >= Len(open) + Len(close)
                    /\ StartsWith(seg.src, open)
                    /\ EndsWith(seg.src, close)
                Bare == \A i \in 1..Len(seg.src) :
                            /\ seg.src[i] # "$"
                            /\ (seg.src[i] = "\\" /\ i < Len(seg.src)) =>
                                   seg.src[i + 1] \notin {"(", ")", "[", "]"}
            IN seg.kind \in {"inline", "block"} =>
                  \/ Between(<<"$">>, <<"$">>)
                  \/ Between(<<"\\", "(">>, <<"\\", ")">>)
                  \/ Between(<<"\\", "[">>, <<"\\", "]">>)
                  \/ Bare

\* A step in which a call that was outstanding when the session was reset
\* returns a response to its handler.
ReturnsAfterReset ==
    \E c \in 1..MaxCalls :
        calls[c].outlived /\ calls'[c] = Idle /\ last'.status = "returned"

\* C25: a request that was in flight when the user reset the session does
\* not install its result afterwards: the step in which its call returns
\* leaves the result on display as it was, so that nothing is displayed
\* after a reset until a problem submitted after it is answered.
C25_ResetDropsInFlightResult ==
    [][ReturnsAfterReset => result' = result]_vars

\* A step in which a handler issues a request: a call starts.
RequestIssued ==
    \E c \in 1..MaxCalls : calls[c] = Idle /\ calls'[c] # Idle

\* A step in which a request completes: the call of a handler returns or
\* throws.
RequestCompletes ==
    \E c \in 1..MaxCalls : calls[c] # Idle /\ calls'[c] = Idle

\* C29: the busy flag is set in the step that issues a submit or refine
\* request and is clear after the step in which that request completes,
\* with a response or with an error; and when every backend call returns,
\* each outstanding request is followed by a state in which it has
\* completed and the busy flag is clear.
C29_BusyUntilCompletion ==
    /\ [][RequestIssued => loading']_vars
    /\ [][RequestCompletes => ~loading']_vars
    /\ \A c \in 1..MaxCalls : (calls[c] # Idle) ~> (calls[c] = Idle /\ ~loading)

\* C29 (witness): a request that went through every candidate has failed
\* and the busy flag is clear, over the error it left.
C29_FailedAndIdle ==
    /\ last.kind \in {"submit", "refine"}
    /\ last.status = "threw"
    /\ Len(last.attempts) = Len(FALLBACK_MODELS)
    /\ Running = {}
    /\ ~loading
    /\ error = messageOf(last.thrown, last.kind)

\* C21: whenever ResultDisplay renders the MermaidDiagram (the detail view,
\* the analysis tab, the static mode), whose effect compiles the root of
\* the active branch under the props it is handed, one of the two arrow
\* toggles handed to it is on.
C21_CompiledWithAnArrow ==
    (activeBranch(view) # 0 /\ view.activeTab = "analysis" /\ view.viewMode = "static")
        => (view.showAnalysisArrows \/ view.showProofArrows)

\* C30: a click on a NodeItem changes the expanded flag of that node only:
\* every other node of the map is expanded after the click exactly when it
\* was before, a node whose NodeItem is not mounted counting as collapsed,
\* the state it is mounted in.  So a node collapsed and expanded again
\* finds its descendants as they were.
C30_ClickFlipsOneNode ==
    [][\A path \in DOMAIN expanded :
          handleClick(path) =>
              LET open(exp, q) == q \in DOMAIN exp /\ exp[q]
              IN \A q \in (DOMAIN expanded \cup DOMAIN expanded') \ {path} :
                    open(expanded', q) <=> open(expanded, q)]_vars

\* C28: the branches of the response on display have pairwise distinct
\* ids, and a click on the card of a branch in the selection view opens
\* the detail view of that branch.
C28_CardOpensItsBranch ==
    /\ [](\A i, j \in DOMAIN Get(result, Key.branches).a :
             Get(Get(result, Key.branches).a[i], Key.id)
                 = Get(Get(result, Key.branches).a[j], Key.id) => i = j)
    /\ [][\A i \in DOMAIN Get(result, Key.branches).a :
             chooseBranch(i) => activeBranch(view') = i]_vars

\* C27: in a compile that returned, the nodes of the tree have pairwise
\* distinct internal ids, so that the two ids of each edge line name the
\* parent and the child the line was emitted for, and no other node.
C27_DistinctInternalIds ==
    (compiled # NotCalled /\ ~compiled.threw) =>
        /\ \A i, j \in 1..Len(compiled.nodeMap) :
              compiled.nodeMap[i].id = compiled.nodeMap[j].id => i = j
        /\ \A k \in 1..Len(compiled.edges) :
              {compiled.nodeMap[i].node :
                   i \in {x \in 1..Len(compiled.nodeMap) :
                             compiled.nodeMap[x].id \in {compiled.edges[k].from, compiled.edges[k].to}}}
                  = {ParentOf(ChildPaths[k]), ChildPaths[k]}

====
